---- MODULE Spec2Model ----
(***************************************************************************)
(* Trade-Mirror: the deduplicating trade store (prod/core/database.py) and *)
(* the Zerodha P&L processor (prod/core/processor.py).                     *)
(*                                                                         *)
(* Three groups of state share the module:                                 *)
(*   - the SQLite store with its writers (Spec: one call at a time,        *)
(*     SpecConc: two writers whose statements interleave),                 *)
(*   - the fingerprint of a pair of records (SpecHash),                    *)
(*   - the processor pipeline on a parsed file (SpecProc).                 *)
(***************************************************************************)
EXTENDS Integers, Sequences, FiniteSets, TLC

VARIABLES
    \* ---- the store (database.py) ----
    trades,          \* committed rows of table trades, in rowid order
    lock,            \* holder of SQLite's RESERVED lock: a writer or NoWriter
    pc,              \* per writer: idle | select | insert | commit | raised
    df,              \* per writer: the DataFrame passed to store_trades
    source,          \* per writer: the source tag passed to store_trades
    idx,             \* per writer: position of df.iterrows()
    pending,         \* per writer: rows inserted on its connection, uncommitted
    inserted_count,  \* per writer: the local inserted_count
    cur,             \* per writer: trade_data and data_hash of the current row
    exc,             \* per writer: the exception the call raised, or NoExc
    plan,            \* the calls a scripted run still has to make
    done,            \* the finished calls of a scripted run, in order
    submitted,       \* fingerprints of all records of calls that returned
    security_log,    \* committed rows of the security_log table, in rowid order
    opened,          \* per SecureDatabase made on the path: the trades it found
    \* ---- the fingerprint of two records (database.py) ----
    hrow1, hrow2,    \* two DataFrame rows
    hperm,           \* an insertion order for the second record's dict
    hash1, hash2,    \* their fingerprints, "" before they are computed
    \* ---- the processor (processor.py) ----
    ppc,             \* start | loaded | measured
    file,            \* the CSV file: lines of text fields
    loaded,          \* outcome of load_zerodha_pnl
    reader,          \* the pandas reader load_zerodha_pnl called, or "none"
    metrics,         \* outcome of calculate_comprehensive_metrics
    \* ---- the secrets (secrets_manager.py) ----
    key_file,        \* .streamlit/secret.key: [exists, content]
    secrets_file,    \* .streamlit/secrets.json: the dict it holds, by name
    cipher_suite,    \* per SecretsManager: "unset", "None" or its Fernet key
    mpc,             \* per SecretsManager: position in __init__, or "ready"
    saved            \* by name: the value and the manager of the last
                     \* save_secret that returned True

storeVars == <<trades, lock, pc, df, source, idx, pending, inserted_count,
               cur, exc, plan, done, submitted, security_log, opened>>
auditVars == <<security_log, opened>>
hashVars  == <<hrow1, hrow2, hperm, hash1, hash2>>
procVars  == <<ppc, file, loaded, metrics, reader>>
secretVars == <<key_file, secrets_file, cipher_suite, mpc, saved>>
vars      == <<storeVars, hashVars, procVars, secretVars>>

(***************************************************************************)
(* Bounds of the model.                                                    *)
(***************************************************************************)
MaxRows == 2         \* rows of a DataFrame passed to store_trades
MaxConcRows == 1     \* the same, for each of two concurrent writers

(***************************************************************************)
(* Python values: cells of a DataFrame and values of a dict.               *)
(***************************************************************************)
IntCell(n)   == [k |-> "int",   n |-> n, s |-> ""]
FloatCell(n) == [k |-> "float", n |-> n, s |-> ""]
StrCell(s)   == [k |-> "str",   n |-> 0, s |-> s]
NaNCell      == [k |-> "nan",   n |-> 0, s |-> ""]
NoneValue    == [k |-> "none",  n |-> 0, s |-> ""]

\* str(x)
PyStr(c) ==
    CASE c.k = "str"   -> c.s
      [] c.k = "int"   -> ToString(c.n)
      [] c.k = "float" -> ToString(c.n) \o ".0"
      [] c.k = "nan"   -> "nan"
      [] c.k = "none"  -> "None"

\* float(x) raises ValueError on text that is no number and TypeError on None
FloatRaises(c) == c.k \in {"str", "none"}

\* float(x) where it does not raise
PyFloat(c) == IF c.k = "nan" THEN NaNCell ELSE FloatCell(c.n)

\* repr(x), as str(dict) renders a value
PyRepr(c) ==
    CASE c.k = "str"   -> "'" \o c.s \o "'"
      [] c.k = "int"   -> ToString(c.n)
      [] c.k = "float" -> ToString(c.n) \o ".0"
      [] c.k = "nan"   -> "nan"
      [] c.k = "none"  -> "None"

(***************************************************************************)
(* A DataFrame row is a sequence of <<column, cell>>; row.get(col, dflt).  *)
(***************************************************************************)
HasCol(row, col) == \E i \in DOMAIN row : row[i][1] = col

RowGet(row, col, dflt) ==
    IF HasCol(row, col)
    THEN row[CHOOSE i \in DOMAIN row : row[i][1] = col][2]
    ELSE dflt

FloatColumns == <<"Quantity", "Buy Value", "Sell Value", "Realized P&L",
                  "Buy Average", "Sell Average">>

\* building trade_data raises when float() of a cell raises
TradeDataRaises(row) ==
    \E j \in DOMAIN FloatColumns :
        FloatRaises(RowGet(row, FloatColumns[j], IntCell(0)))

\* trade_data of store_trades: a dict, as <<key, value>> in insertion order
TradeData(row) ==
    << <<"symbol",       StrCell(PyStr(RowGet(row, "Symbol", StrCell(""))))>>,
       <<"quantity",     PyFloat(RowGet(row, "Quantity", IntCell(0)))>>,
       <<"buy_value",    PyFloat(RowGet(row, "Buy Value", IntCell(0)))>>,
       <<"sell_value",   PyFloat(RowGet(row, "Sell Value", IntCell(0)))>>,
       <<"realized_pnl", PyFloat(RowGet(row, "Realized P&L", IntCell(0)))>>,
       <<"buy_average",  PyFloat(RowGet(row, "Buy Average", IntCell(0)))>>,
       <<"sell_average", PyFloat(RowGet(row, "Sell Average", IntCell(0)))>>,
       <<"trade_type",   StrCell(PyStr(RowGet(row, "Trade Type", StrCell(""))))>>,
       <<"exchange",     StrCell(PyStr(RowGet(row, "Exchange", StrCell(""))))>>,
       <<"trade_time",   StrCell(PyStr(RowGet(row, "Time", StrCell(""))))>> >>

\* value of a key of a dict
DictGet(data, key) == data[CHOOSE i \in DOMAIN data : data[i][1] = key][2]

(***************************************************************************)
(* calculate_data_hash: str() of the dict sorted by key without its None   *)
(* values; SHA-256 is taken as collision-free, so the fingerprint is the   *)
(* string that is hashed.                                                  *)
(***************************************************************************)
\* the keys of a trade dict in the order sorted() puts them
KeyOrder == <<"buy_average", "buy_value", "exchange", "quantity",
              "realized_pnl", "sell_average", "sell_value", "symbol",
              "trade_time", "trade_type">>

KeyRank(key) == CHOOSE j \in DOMAIN KeyOrder : KeyOrder[j] = key

RECURSIVE InsertSorted(_, _)
InsertSorted(item, sorted) ==
    IF sorted = <<>> THEN <<item>>
    ELSE IF KeyRank(item[1]) < KeyRank(Head(sorted)[1])
         THEN <<item>> \o sorted
         ELSE <<Head(sorted)>> \o InsertSorted(item, Tail(sorted))

RECURSIVE SortItems(_)
SortItems(data) ==
    IF data = <<>> THEN <<>>
    ELSE InsertSorted(Head(data), SortItems(Tail(data)))

UnsortedItems(data) == data

\* sorted(data.items())
SortedItems(data) == SortItems(data)

RECURSIVE JoinItems(_)
JoinItems(items) ==
    IF items = <<>> THEN ""
    ELSE "'" \o Head(items)[1] \o "': " \o PyRepr(Head(items)[2])
         \o (IF Len(items) > 1 THEN ", " ELSE "")
         \o JoinItems(Tail(items))

calculate_data_hash(data) ==
    LET sorted_data == SelectSeq(SortedItems(data),
                                 LAMBDA it : it[2] # NoneValue)
    IN  "{" \o JoinItems(sorted_data) \o "}"

Fingerprint(row) == calculate_data_hash(TradeData(row))

(***************************************************************************)
(* The store.                                                              *)
(***************************************************************************)
Writers  == {"w1", "w2"}
NoWriter == "none"
Sources  == {"source_a", "source_b"}
\* the source tag each of two concurrent processes stores under
SourceOf(w) == IF w = "w1" THEN "source_a" ELSE "source_b"
NoExc    == "none"

\* Rows submitted to the store.  RowA and RowA2 are the same trade written
\* differently (column order, int or float cells); RowN has a null Quantity.
RowA  == << <<"Symbol", StrCell("RELIANCE")>>, <<"Quantity", IntCell(10)>>,
            <<"Realized P&L", FloatCell(100)>>,
            <<"Time", StrCell("2024-01-15 10:30:00")>> >>
RowA2 == << <<"Time", StrCell("2024-01-15 10:30:00")>>,
            <<"Realized P&L", IntCell(100)>>,
            <<"Quantity", FloatCell(10)>>, <<"Buy Value", IntCell(0)>>,
            <<"Symbol", StrCell("RELIANCE")>> >>
RowB  == << <<"Symbol", StrCell("TCS")>>, <<"Quantity", IntCell(5)>>,
            <<"Realized P&L", FloatCell(-100)>>,
            <<"Time", StrCell("2024-01-15 11:45:00")>> >>
RowC  == << <<"Symbol", StrCell("INFY")>>, <<"Quantity", IntCell(8)>>,
            <<"Realized P&L", FloatCell(75)>>,
            <<"Time", StrCell("2024-01-15 14:20:00")>> >>
RowN  == << <<"Symbol", StrCell("HDFC")>>, <<"Quantity", NaNCell>>,
            <<"Realized P&L", FloatCell(0)>>,
            <<"Time", StrCell("2024-01-15 10:30:00")>> >>

StoreRows == {RowA, RowA2, RowB, RowC, RowN}

RECURSIVE SeqsUpTo(_, _)
SeqsUpTo(S, n) ==
    IF n = 0 THEN {<<>>}
    ELSE LET shorter == SeqsUpTo(S, n - 1)
         IN  shorter \cup {Append(t, x) : t \in shorter, x \in S}

Tables == SeqsUpTo(StoreRows, MaxRows)
ConcTables == SeqsUpTo(StoreRows \ {RowC}, MaxConcRows)

Range(f) == {f[i] : i \in DOMAIN f}

Hashes(rows) == {rows[i].data_hash : i \in DOMAIN rows}

\* the fingerprints of the records of a DataFrame
TableFingerprints(t) == {Fingerprint(t[i]) : i \in DOMAIN t}

NoCur == [td |-> <<>>, data_hash |-> ""]

StoreStart ==
    /\ trades = <<>>
    /\ lock = NoWriter
    /\ pc = [w \in Writers |-> "idle"]
    /\ df = [w \in Writers |-> <<>>]
    /\ source = [w \in Writers |-> "source_a"]
    /\ idx = [w \in Writers |-> 0]
    /\ pending = [w \in Writers |-> <<>>]
    /\ inserted_count = [w \in Writers |-> 0]
    /\ cur = [w \in Writers |-> NoCur]
    /\ exc = [w \in Writers |-> NoExc]
    /\ done = <<>>
    /\ submitted = {}
    /\ security_log = <<>>
    /\ opened = <<0>>

AllIdle == \A w \in Writers : pc[w] = "idle"

\* SELECT id FROM trades WHERE data_hash = ? on the writer's connection, which
\* sees the committed rows and the rows it inserted itself
ExistingSameSource(w, h) ==
    \E r \in Range(trades) \cup Range(pending[w]) :
        r.data_hash = h /\ r.data_source = source[w]

Existing(w, h) == h \in Hashes(trades) \cup Hashes(pending[w])

\* data_hash TEXT UNIQUE: an INSERT of a committed data_hash fails
NoUniqueConstraint(h) == FALSE

UniqueViolation(h) == h \in Hashes(trades)

\* quantity REAL NOT NULL: sqlite3 binds a NaN float as NULL
NotNullViolation(td) == DictGet(td, "quantity") = NaNCell

\* conn.commit(): the rows of the connection's transaction become visible
CommitNothing(w) == trades

\* a commit of statements that replace a stored row's tag (INSERT OR REPLACE)
CommittedRetagging(w) ==
    [i \in DOMAIN trades |-> [trades[i] EXCEPT !.data_source = source[w]]]
        \o pending[w]

Committed(w) == trades \o pending[w]

ExcValue     == "ValueError"
ExcNotNull   == "IntegrityError: NOT NULL constraint failed: trades.quantity"
ExcUnique    == "IntegrityError: UNIQUE constraint failed: trades.data_hash"
ExcLocked    == "OperationalError: database is locked"

\* a scripted run keeps the result of each call it made
Finished(w, outcome, ret) ==
    IF plan = <<>> /\ done = <<>>
    THEN done
    ELSE Append(done, [df |-> df[w], source |-> source[w],
                       outcome |-> outcome, ret |-> ret])

\* the iterrows() loop moves on: the next row, or conn.commit() after the last
Advance(w) ==
    /\ idx' = [idx EXCEPT ![w] = @ + 1]
    /\ pc' = [pc EXCEPT ![w] = IF idx[w] = Len(df[w]) THEN "commit" ELSE "select"]

\* an exception leaves the try block: logged and re-raised, the connection is
\* neither committed nor closed
Raise(w, e) ==
    /\ pc' = [pc EXCEPT ![w] = "raised"]
    /\ exc' = [exc EXCEPT ![w] = e]
    /\ done' = Finished(w, e, 0)

\* log_security_event(action, table_name, ...): the event goes to the logger;
\* the INSERT INTO security_log is commented out, the table gets no row
log_security_event(log, action, table_name) == log

\* CREATE TABLE after a DROP TABLE IF EXISTS
CreateTableAfresh(rows) == <<>>

\* CREATE TABLE IF NOT EXISTS on the rows of a table of the file
CreateTableIfNotExists(rows) == rows

MaxOpened == 2       \* SecureDatabase objects made on the one path

\* SecureDatabase(db_path) on the path of the store: init_database on a
\* connection of its own, at any moment of a call of the first object.
\* Its statements find the tables and take no write lock.
InitDatabase ==
    /\ Len(opened) < MaxOpened
    /\ trades' = CreateTableIfNotExists(trades)
    /\ security_log' = CreateTableIfNotExists(security_log)
    /\ opened' = Append(opened, Len(trades))
    /\ UNCHANGED <<lock, pc, df, source, idx, pending, inserted_count, cur,
                   exc, plan, done, submitted>>
    /\ UNCHANGED <<hashVars, procVars, secretVars>>

\* store_trades(df, source) is called: sqlite3.connect, inserted_count = 0
Begin(w, t, s) ==
    /\ pc[w] = "idle"
    /\ df' = [df EXCEPT ![w] = t]
    /\ source' = [source EXCEPT ![w] = s]
    /\ idx' = [idx EXCEPT ![w] = 1]
    /\ inserted_count' = [inserted_count EXCEPT ![w] = 0]
    /\ pc' = [pc EXCEPT ![w] = IF t = <<>> THEN "commit" ELSE "select"]
    /\ UNCHANGED <<trades, lock, pending, cur, exc, done, submitted>>
    /\ UNCHANGED <<hashVars, procVars, auditVars, secretVars>>

\* the single-user tool: one SecureDatabase, one call at a time
StoreTradesBegin(w) ==
    \E t \in Tables, s \in Sources :
        AllIdle /\ plan = <<>> /\ done = <<>> /\ Begin(w, t, s) /\ UNCHANGED plan

\* a scripted run makes the next call of its plan
StoreTradesPlanned(w) ==
    /\ plan # <<>>
    /\ AllIdle
    /\ Begin(w, Head(plan).df, Head(plan).source)
    /\ plan' = Tail(plan)

\* two processes: a call starts whatever the other writer is doing
StoreTradesBeginConcurrent(w) ==
    \E t \in ConcTables : Begin(w, t, SourceOf(w)) /\ UNCHANGED plan

\* one iteration up to the existence check: trade_data, data_hash, SELECT
SelectExisting(w) ==
    /\ pc[w] = "select"
    /\ LET row == df[w][idx[w]] IN
       IF TradeDataRaises(row)
       THEN /\ Raise(w, ExcValue)
            /\ UNCHANGED <<idx, cur>>
       ELSE LET td == TradeData(row)
                h  == calculate_data_hash(td)
            IN  IF Existing(w, h)
                THEN /\ Advance(w)
                     /\ UNCHANGED <<cur, exc, done>>
                ELSE /\ pc' = [pc EXCEPT ![w] = "insert"]
                     /\ cur' = [cur EXCEPT ![w] = [td |-> td, data_hash |-> h]]
                     /\ UNCHANGED <<idx, exc, done>>
    /\ UNCHANGED <<trades, lock, df, source, pending, inserted_count, plan,
                   submitted>>
    /\ UNCHANGED <<hashVars, procVars, auditVars, secretVars>>

\* the INSERT of a record that was not found: the statement takes the RESERVED
\* lock (the implicit BEGIN), then the constraints of the table decide
InsertTrade(w) ==
    /\ pc[w] = "insert"
    /\ lock \in {NoWriter, w}
    /\ lock' = w
    /\ IF NotNullViolation(cur[w].td)
       THEN /\ Raise(w, ExcNotNull)
            /\ UNCHANGED <<idx, pending, inserted_count>>
       ELSE IF UniqueViolation(cur[w].data_hash)
       THEN /\ Raise(w, ExcUnique)
            /\ UNCHANGED <<idx, pending, inserted_count>>
       ELSE /\ pending' = [pending EXCEPT ![w] =
                   Append(@, [td |-> cur[w].td, data_source |-> source[w],
                              data_hash |-> cur[w].data_hash])]
            /\ inserted_count' = [inserted_count EXCEPT ![w] = @ + 1]
            /\ Advance(w)
            /\ UNCHANGED <<exc, done>>
    /\ security_log' =
          IF NotNullViolation(cur[w].td) \/ UniqueViolation(cur[w].data_hash)
          THEN security_log
          ELSE log_security_event(security_log, "INSERT", "trades")
    /\ UNCHANGED <<trades, df, source, cur, plan, submitted, opened>>
    /\ UNCHANGED <<hashVars, procVars, secretVars>>

\* the INSERT while the other connection holds the RESERVED lock and keeps it
\* longer than the busy timeout
InsertBusy(w) ==
    /\ pc[w] = "insert"
    /\ lock \notin {NoWriter, w}
    /\ Raise(w, ExcLocked)
    /\ UNCHANGED <<trades, lock, df, source, idx, pending, inserted_count,
                   cur, plan, submitted>>
    /\ UNCHANGED <<hashVars, procVars, auditVars, secretVars>>

\* conn.commit(), conn.close(), return inserted_count
CommitReturn(w) ==
    /\ pc[w] = "commit"
    /\ trades' = Committed(w)
    /\ lock' = IF lock = w THEN NoWriter ELSE lock
    /\ done' = Finished(w, "returned", inserted_count[w])
    /\ submitted' = submitted \cup TableFingerprints(df[w])
    /\ pc' = [pc EXCEPT ![w] = "idle"]
    /\ df' = [df EXCEPT ![w] = <<>>]
    /\ idx' = [idx EXCEPT ![w] = 0]
    /\ pending' = [pending EXCEPT ![w] = <<>>]
    /\ inserted_count' = [inserted_count EXCEPT ![w] = 0]
    /\ cur' = [cur EXCEPT ![w] = NoCur]
    /\ UNCHANGED <<source, exc, plan>>
    /\ UNCHANGED <<hashVars, procVars, auditVars, secretVars>>

\* a release that commits what the call had inserted
ReleaseConnectionCommitting(w) ==
    /\ pc[w] = "raised"
    /\ trades' = trades \o pending[w]
    /\ lock' = IF lock = w THEN NoWriter ELSE lock
    /\ pc' = [pc EXCEPT ![w] = "idle"]
    /\ exc' = [exc EXCEPT ![w] = NoExc]
    /\ df' = [df EXCEPT ![w] = <<>>]
    /\ idx' = [idx EXCEPT ![w] = 0]
    /\ pending' = [pending EXCEPT ![w] = <<>>]
    /\ inserted_count' = [inserted_count EXCEPT ![w] = 0]
    /\ cur' = [cur EXCEPT ![w] = NoCur]
    /\ UNCHANGED <<source, plan, done, submitted>>
    /\ UNCHANGED <<hashVars, procVars, auditVars, secretVars>>

\* the connection of a call that raised is released with the frame that held
\* it: its transaction is rolled back and its lock given up
ReleaseConnection(w) ==
    /\ pc[w] = "raised"
    /\ lock' = IF lock = w THEN NoWriter ELSE lock
    /\ pc' = [pc EXCEPT ![w] = "idle"]
    /\ exc' = [exc EXCEPT ![w] = NoExc]
    /\ df' = [df EXCEPT ![w] = <<>>]
    /\ idx' = [idx EXCEPT ![w] = 0]
    /\ pending' = [pending EXCEPT ![w] = <<>>]
    /\ inserted_count' = [inserted_count EXCEPT ![w] = 0]
    /\ cur' = [cur EXCEPT ![w] = NoCur]
    /\ UNCHANGED <<trades, source, plan, done, submitted>>
    /\ UNCHANGED <<hashVars, procVars, auditVars, secretVars>>

(***************************************************************************)
(* get_trades(limit, source).  An optional argument is <<>> (None) or      *)
(* <<value>>.                                                              *)
(***************************************************************************)
\* the trade_time texts of the model in the order SQLite compares TEXT
TimeOrder == <<"", "2024-01-15 10:30:00", "2024-01-15 11:45:00",
               "2024-01-15 14:20:00", "nan">>

TimeRank(r) ==
    CHOOSE j \in DOMAIN TimeOrder :
        TimeOrder[j] = DictGet(r.td, "trade_time").s

\* ORDER BY trade_time DESC, rows of equal trade_time in rowid order
RECURSIVE InsertByTimeDesc(_, _)
InsertByTimeDesc(r, sorted) ==
    IF sorted = <<>> THEN <<r>>
    ELSE IF TimeRank(r) > TimeRank(Head(sorted))
         THEN <<r>> \o sorted
         ELSE <<Head(sorted)>> \o InsertByTimeDesc(r, Tail(sorted))

RECURSIVE OrderByTimeDesc(_)
OrderByTimeDesc(rows) ==
    IF rows = <<>> THEN <<>>
    ELSE InsertByTimeDesc(rows[Len(rows)],
                          OrderByTimeDesc(SubSeq(rows, 1, Len(rows) - 1)))

\* "if source:" and "if limit:" test truthiness: None, "" and 0 add no clause
GetTrades(limit, src) ==
    LET filtered == IF src # <<>> /\ src[1] # ""
                    THEN SelectSeq(trades, LAMBDA r : r.data_source = src[1])
                    ELSE trades
        ordered  == OrderByTimeDesc(filtered)
    IN  IF limit # <<>> /\ limit[1] # 0
        THEN SubSeq(ordered, 1, IF limit[1] < Len(ordered) /\ limit[1] > 0
                                THEN limit[1] ELSE Len(ordered))
        ELSE ordered

\* verify_integrity: False when a data_hash is stored more than once
verify_integrity ==
    ~ \E i \in DOMAIN trades, j \in DOMAIN trades :
          i # j /\ trades[i].data_hash = trades[j].data_hash

(***************************************************************************)
(* SecretsManager.  Two objects, in two processes, on the one .streamlit   *)
(* directory.  A Fernet token is written "gA:<key>:<data>"; keys are two   *)
(* characters long.                                                        *)
(***************************************************************************)
Managers     == {"m1", "m2"}
SecretNames  == {"api_key_gemini", "sensitive_data"}
SecretValues == {"very_secret_value", "AIza-1"}

\* Fernet.generate_key(): a fresh key each time
GenerateKey(m) == IF m = "m1" THEN "K1" ELSE "K2"
FernetKeys == {GenerateKey(m) : m \in Managers}

SecretsStart ==
    /\ key_file = [exists |-> FALSE, content |-> ""]
    /\ secrets_file = <<>>
    /\ cipher_suite = [m \in Managers |-> "unset"]
    /\ mpc = [m \in Managers |-> "start"]
    /\ saved = <<>>

\* Fernet(key): ValueError unless the key decodes to 32 bytes; the except
\* clause of _initialize_encryption returns None
Fernet(key) == IF key \in FernetKeys THEN key ELSE "None"

\* cipher_suite.encrypt(data), then base64.urlsafe_b64encode
Encrypt(key, data) == "gA:" \o key \o ":" \o data

IsTokenOf(key, s) ==
    /\ Len(s) >= 6
    /\ SubSeq(s, 1, 6) = "gA:" \o key \o ":"

\* _encrypt_data: the data itself when there is no cipher suite
EncryptData(m, data) ==
    IF cipher_suite[m] # "None" THEN Encrypt(cipher_suite[m], data) ELSE data

\* _decrypt_data: the argument itself when there is no cipher suite, when it
\* is empty, or when decoding or decrypting raises
DecryptData(m, encrypted_data) ==
    IF cipher_suite[m] # "None" /\ encrypted_data # ""
       /\ IsTokenOf(cipher_suite[m], encrypted_data)
    THEN SubSeq(encrypted_data, 7, Len(encrypted_data))
    ELSE encrypted_data

\* get_secret(key, default)
get_secret(m, name, default) ==
    IF name \in DOMAIN secrets_file /\ secrets_file[name] # ""
    THEN DecryptData(m, secrets_file[name])
    ELSE default

\* _initialize_encryption up to the key: read from the file that is there,
\* or generated
InitializeEncryption(m) ==
    /\ mpc[m] = "start"
    /\ IF key_file.exists
       THEN /\ cipher_suite' = [cipher_suite EXCEPT ![m] = Fernet(key_file.content)]
            /\ mpc' = [mpc EXCEPT ![m] = "ready"]
       ELSE /\ mpc' = [mpc EXCEPT ![m] = "generated"]
            /\ UNCHANGED cipher_suite
    /\ UNCHANGED <<key_file, secrets_file, saved>>
    /\ UNCHANGED <<storeVars, hashVars, procVars>>

\* open(self.key_file, 'wb'): the file is there and empty
OpenKeyFile(m) ==
    /\ mpc[m] = "generated"
    /\ key_file' = [exists |-> TRUE, content |-> ""]
    /\ mpc' = [mpc EXCEPT ![m] = "opened"]
    /\ UNCHANGED <<secrets_file, cipher_suite, saved>>
    /\ UNCHANGED <<storeVars, hashVars, procVars>>

\* f.write(key) and the end of the with block, os.chmod, Fernet(key)
WriteKey(m) ==
    /\ mpc[m] = "opened"
    /\ key_file' = [exists |-> TRUE, content |-> GenerateKey(m)]
    /\ cipher_suite' = [cipher_suite EXCEPT ![m] = Fernet(GenerateKey(m))]
    /\ mpc' = [mpc EXCEPT ![m] = "ready"]
    /\ UNCHANGED <<secrets_file, saved>>
    /\ UNCHANGED <<storeVars, hashVars, procVars>>

\* save_secret(key, value): load_secrets, _encrypt_data, json.dump; True
SaveSecret(m) ==
    /\ mpc[m] = "ready"
    /\ \E name \in SecretNames, value \in SecretValues :
          /\ secrets_file' =
                [n \in DOMAIN secrets_file \cup {name} |->
                    IF n = name THEN EncryptData(m, value)
                    ELSE secrets_file[n]]
          /\ saved' =
                [n \in DOMAIN saved \cup {name} |->
                    IF n = name THEN [value |-> value, by |-> m]
                    ELSE saved[n]]
    /\ UNCHANGED <<key_file, cipher_suite, mpc>>
    /\ UNCHANGED <<storeVars, hashVars, procVars>>

\* delete_secret(key) of a name that is in the file
DeleteSecret(m) ==
    /\ mpc[m] = "ready"
    /\ \E name \in DOMAIN secrets_file :
          /\ secrets_file' =
                [n \in DOMAIN secrets_file \ {name} |-> secrets_file[n]]
          /\ saved' = [n \in DOMAIN saved \ {name} |-> saved[n]]
    /\ UNCHANGED <<key_file, cipher_suite, mpc>>
    /\ UNCHANGED <<storeVars, hashVars, procVars>>

HashIdle == hrow1 = <<>> /\ hrow2 = <<>> /\ hperm = <<>>
            /\ hash1 = "" /\ hash2 = ""
ProcIdle == /\ ppc = "off" /\ file = <<>> /\ loaded = <<>> /\ metrics = <<>>
            /\ reader = "none"

(***************************************************************************)
(* Spec: one SecureDatabase whose calls follow one another.                *)
(***************************************************************************)
Init == StoreStart /\ SecretsStart /\ plan = <<>> /\ HashIdle /\ ProcIdle

Next ==
    \/ StoreTradesBegin("w1")
    \/ SelectExisting("w1")
    \/ InsertTrade("w1")
    \/ CommitReturn("w1")
    \/ ReleaseConnection("w1")

Spec == Init /\ [][Next]_vars

(***************************************************************************)
(* SpecSecrets: two processes import secrets_manager on a fresh checkout   *)
(* and save, read and delete secrets.                                      *)
(***************************************************************************)
NextSecrets ==
    \/ \E m \in Managers : InitializeEncryption(m)
    \/ \E m \in Managers : OpenKeyFile(m)
    \/ \E m \in Managers : WriteKey(m)
    \/ \E m \in Managers : SaveSecret(m)
    \/ \E m \in Managers : DeleteSecret(m)

SpecSecrets == Init /\ [][NextSecrets]_vars

(***************************************************************************)
(* SpecTwice: the same table stored twice under two source tags, on an     *)
(* empty store.                                                            *)
(***************************************************************************)
InitTwice ==
    /\ StoreStart /\ SecretsStart /\ HashIdle /\ ProcIdle
    /\ \E t \in Tables, s1 \in Sources, s2 \in Sources :
          /\ s1 # s2
          /\ plan = << [df |-> t, source |-> s1], [df |-> t, source |-> s2] >>

NextTwice ==
    \/ StoreTradesPlanned("w1")
    \/ SelectExisting("w1")
    \/ InsertTrade("w1")
    \/ CommitReturn("w1")
    \/ ReleaseConnection("w1")

SpecTwice == InitTwice /\ [][NextTwice]_vars

(***************************************************************************)
(* SpecReopen: the scripted run of SpecTwice, and further SecureDatabase    *)
(* objects are made on the path of the store at any moment of it.          *)
(***************************************************************************)
NextReopen ==
    \/ StoreTradesPlanned("w1")
    \/ SelectExisting("w1")
    \/ InsertTrade("w1")
    \/ CommitReturn("w1")
    \/ ReleaseConnection("w1")
    \/ InitDatabase

SpecReopen == InitTwice /\ [][NextReopen]_vars

(***************************************************************************)
(* SpecConc: two processes write to the same database file.                *)
(***************************************************************************)
NextConc ==
    \/ \E w \in Writers : StoreTradesBeginConcurrent(w)
    \/ \E w \in Writers : SelectExisting(w)
    \/ \E w \in Writers : InsertTrade(w)
    \/ \E w \in Writers : InsertBusy(w)
    \/ \E w \in Writers : CommitReturn(w)
    \/ \E w \in Writers : ReleaseConnection(w)

SpecConc == Init /\ [][NextConc]_vars

(***************************************************************************)
(* SpecHash: the fingerprints of two records.  The first is hashed as      *)
(* store_trades builds it; the dict of the second is rebuilt in another    *)
(* insertion order before it is hashed.                                    *)
(***************************************************************************)
HashColumns == {"Symbol", "Quantity", "Realized P&L"}

HashCells(col) ==
    CASE col = "Symbol"       -> {StrCell("TCS"), StrCell("nan"), NaNCell}
      [] col = "Quantity"     -> {IntCell(10), FloatCell(10), IntCell(0)}
      [] col = "Realized P&L" -> {FloatCell(100), IntCell(-100)}

\* rows over any subset of the columns, in any column order
RECURSIVE RowsOver(_)
RowsOver(cols) ==
    {<<>>} \cup
    UNION { { <<<<c, v>>>> \o r : v \in HashCells(c),
                                  r \in RowsOver(cols \ {c}) } : c \in cols }

HashRows == RowsOver(HashColumns)

\* insertion orders of a dict of the ten keys: as built, reversed, rotated
InsertionOrders ==
    { [i \in 1..Len(KeyOrder) |-> i],
      [i \in 1..Len(KeyOrder) |-> Len(KeyOrder) + 1 - i],
      [i \in 1..Len(KeyOrder) |-> ((i + 2) % Len(KeyOrder)) + 1] }

Reordered(data, order) == [i \in DOMAIN data |-> data[order[i]]]

\* the canonical field values of a record: trade_data as a mapping
Canon(row) ==
    [key \in Range(KeyOrder) |-> DictGet(TradeData(row), key)]

InitHash ==
    /\ StoreStart /\ SecretsStart /\ plan = <<>> /\ ProcIdle
    /\ hrow1 \in HashRows
    /\ hrow2 \in HashRows
    /\ hperm \in InsertionOrders
    /\ hash1 = "" /\ hash2 = ""

HashRecords ==
    /\ hash1 = ""
    /\ hash1' = calculate_data_hash(TradeData(hrow1))
    /\ hash2' = calculate_data_hash(Reordered(TradeData(hrow2), hperm))
    /\ UNCHANGED <<hrow1, hrow2, hperm, storeVars, procVars, secretVars>>

NextHash == HashRecords

SpecHash == InitHash /\ [][NextHash]_vars

(***************************************************************************)
(* Text, as Python's str methods compute it.  A TLA+ string is a sequence  *)
(* of characters: Len, SubSeq and \o apply to it.                          *)
(***************************************************************************)
Char(s, i) == SubSeq(s, i, i)
Rest(s)    == SubSeq(s, 2, Len(s))

LowerCase == "abcdefghijklmnopqrstuvwxyz"
UpperCase == "ABCDEFGHIJKLMNOPQRSTUVWXYZ"
Digits    == "0123456789"

\* position of character c in an alphabet, 0 when it is not there
PosIn(c, alphabet) ==
    IF \E i \in 1..Len(alphabet) : Char(alphabet, i) = c
    THEN CHOOSE i \in 1..Len(alphabet) : Char(alphabet, i) = c
    ELSE 0

IsDigit(c) == PosIn(c, Digits) > 0
IsCased(c) == PosIn(c, LowerCase) > 0 \/ PosIn(c, UpperCase) > 0
ToUpper(c) == IF PosIn(c, LowerCase) > 0
              THEN Char(UpperCase, PosIn(c, LowerCase)) ELSE c
ToLower(c) == IF PosIn(c, UpperCase) > 0
              THEN Char(LowerCase, PosIn(c, UpperCase)) ELSE c

\* str.lower()
RECURSIVE Lower(_)
Lower(s) == IF s = "" THEN "" ELSE ToLower(Char(s, 1)) \o Lower(Rest(s))

\* str.strip()
RECURSIVE LStrip(_)
LStrip(s) == IF s # "" /\ Char(s, 1) = " " THEN LStrip(Rest(s)) ELSE s

RECURSIVE RStrip(_)
RStrip(s) == IF s # "" /\ Char(s, Len(s)) = " "
             THEN RStrip(SubSeq(s, 1, Len(s) - 1)) ELSE s

Strip(s) == LStrip(RStrip(s))

\* str.title(): a cased character is upper-cased after an uncased one and
\* lower-cased after a cased one
RECURSIVE TitleFrom(_, _, _)
TitleFrom(s, i, prevCased) ==
    IF i > Len(s) THEN ""
    ELSE LET c == Char(s, i) IN
         (IF prevCased THEN ToLower(c) ELSE ToUpper(c))
             \o TitleFrom(s, i + 1, IsCased(c))

Title(s) == TitleFrom(s, 1, FALSE)

\* str.replace(c, r) for a single character c
RECURSIVE Replace(_, _, _)
Replace(s, c, r) ==
    IF s = "" THEN ""
    ELSE (IF Char(s, 1) = c THEN r ELSE Char(s, 1)) \o Replace(Rest(s), c, r)

(***************************************************************************)
(* Numbers in text.  The amounts of the model are whole: a fraction, where *)
(* one is written, is all zeros ("2500.0").                                *)
(***************************************************************************)
RECURSIVE AllDigits(_)
AllDigits(s) == s = "" \/ (IsDigit(Char(s, 1)) /\ AllDigits(Rest(s)))

RECURSIVE DigitsValue(_, _)
DigitsValue(s, acc) ==
    IF s = "" THEN acc
    ELSE DigitsValue(Rest(s), 10 * acc + PosIn(Char(s, 1), Digits) - 1)

Unsigned(s) == IF s # "" /\ Char(s, 1) = "-" THEN Rest(s) ELSE s
DotPos(s)   == PosIn(".", s)
IntPart(s)  == IF DotPos(s) = 0 THEN s ELSE SubSeq(s, 1, DotPos(s) - 1)
FracPart(s) == IF DotPos(s) = 0 THEN "" ELSE SubSeq(s, DotPos(s) + 1, Len(s))

\* the text parses as a number
IsNumeric(s) ==
    /\ IntPart(Unsigned(s)) # ""
    /\ AllDigits(IntPart(Unsigned(s)))
    /\ AllDigits(FracPart(Unsigned(s)))

NumericValue(s) ==
    IF s # "" /\ Char(s, 1) = "-"
    THEN 0 - DigitsValue(IntPart(Unsigned(s)), 0)
    ELSE DigitsValue(IntPart(s), 0)

\* pd.notna(x)
NotNa(c) == c.k \notin {"nan", "none"}

\* pd.to_numeric(x, errors='coerce') of one cell
ToNumeric(c) ==
    CASE c.k = "str"   -> IF IsNumeric(c.s) THEN FloatCell(NumericValue(c.s))
                          ELSE NaNCell
      [] c.k = "int"   -> c
      [] c.k = "float" -> c
      [] c.k = "bool"  -> c
      [] OTHER         -> NaNCell

BoolCell(b)    == [k |-> "bool", n |-> IF b THEN 1 ELSE 0, s |-> ""]
\* a float that is the quotient p / q
RatioCell(p, q) == [k |-> "ratio", n |-> p, s |-> "", d |-> q]

(***************************************************************************)
(* A DataFrame: column labels (cells: a label need not be text), the dtype *)
(* of each column, and the rows.  A row remembers in orig the 0-based      *)
(* index it had in the frame pd.read_csv returned.                         *)
(***************************************************************************)
NoFrame == [columns |-> <<>>, dtypes |-> <<>>, rows |-> <<>>]

InColumns(d, name) == \E j \in DOMAIN d.columns : d.columns[j] = StrCell(name)
ColumnOf(d, name)  == CHOOSE j \in DOMAIN d.columns : d.columns[j] = StrCell(name)
Duplicated(d, j)   == \E k \in DOMAIN d.columns :
                          k # j /\ d.columns[k] = d.columns[j]

\* the frame with the cells of its rows replaced
WithCells(d, cells) ==
    [d EXCEPT !.rows =
        [i \in DOMAIN d.rows |->
            [orig |-> d.rows[i].orig, cells |-> cells[i]]]]

\* df[name] = column: one more column, with a cell for each row
AppendColumn(d, name, dtype, column) ==
    [columns |-> Append(d.columns, StrCell(name)),
     dtypes  |-> Append(d.dtypes, dtype),
     rows    |-> [i \in DOMAIN d.rows |->
                    [orig  |-> d.rows[i].orig,
                     cells |-> Append(d.rows[i].cells, column[i])]]]

\* df.drop(columns=names): the other columns, in their order
WithoutColumns(d, names) ==
    LET kept == SelectSeq([j \in DOMAIN d.columns |-> j],
                    LAMBDA j : d.columns[j] \notin
                                   {StrCell(name) : name \in names})
    IN [columns |-> [k \in DOMAIN kept |-> d.columns[kept[k]]],
        dtypes  |-> [k \in DOMAIN kept |-> d.dtypes[kept[k]]],
        rows    |-> [i \in DOMAIN d.rows |->
                       [orig  |-> d.rows[i].orig,
                        cells |-> [k \in DOMAIN kept |->
                                      d.rows[i].cells[kept[k]]]]]]

(***************************************************************************)
(* pd.read_csv of a file given as lines of fields.  The first line labels  *)
(* the columns; a column whose fields all parse as numbers (or are missing)*)
(* is numeric, any other column holds the text of its fields.              *)
(***************************************************************************)
NaValues == {"", "nan", "NaN", "null", "NULL", "NA", "N/A"}

read_csv(f) ==
    LET ColumnIsNumeric(j) ==
            /\ Len(f) >= 2
            /\ \A i \in 2..Len(f) :
                  f[i][j] \in NaValues \/ IsNumeric(f[i][j])
        ColumnIsInt(j) ==
            \A i \in 2..Len(f) :
                f[i][j] \notin NaValues /\ DotPos(f[i][j]) = 0
        ParseCell(i, j) ==
            IF f[i][j] \in NaValues THEN NaNCell
            ELSE IF ~ColumnIsNumeric(j) THEN StrCell(f[i][j])
            ELSE IF ColumnIsInt(j) THEN IntCell(NumericValue(f[i][j]))
            ELSE FloatCell(NumericValue(f[i][j]))
    IN
    [columns |-> [j \in DOMAIN f[1] |->
                    StrCell(IF f[1][j] = ""
                            THEN "Unnamed: " \o ToString(j - 1)
                            ELSE f[1][j])],
     dtypes  |-> [j \in DOMAIN f[1] |->
                    IF ColumnIsNumeric(j) THEN "number" ELSE "object"],
     rows    |-> [i \in 1..(Len(f) - 1) |->
                    [orig  |-> i - 1,
                     cells |-> [j \in DOMAIN f[1] |-> ParseCell(i + 1, j)]]]]

(***************************************************************************)
(* detect_header_row                                                       *)
(***************************************************************************)
header_indicators == {"Symbol", "Instrument", "Tradingsymbol", "Quantity",
                      "Buy Value", "Realized P&L"}

\* numeric_threshold = 0.7, in tenths
numeric_threshold == 7

\* [str(val).strip() for val in row.values if pd.notna(val)]
RowValues(row) ==
    {Strip(PyStr(row.cells[j])) :
        j \in {k \in DOMAIN row.cells : NotNa(row.cells[k])}}

HasIndicator(row) == header_indicators \cap RowValues(row) # {}

\* the first loop over df.iterrows(), from index i on: the index of the
\* row it returns, -1 when it runs to the end
RECURSIVE ScanIndicators(_, _)
ScanIndicators(d, i) ==
    IF i >= Len(d.rows) THEN -1
    ELSE IF i # 0 /\ HasIndicator(d.rows[i + 1]) THEN i
    ELSE ScanIndicators(d, i + 1)

\* sum(pd.to_numeric(row, errors='coerce').notna())
numeric_count(row) ==
    Cardinality({j \in DOMAIN row.cells : NotNa(ToNumeric(row.cells[j]))})

\* numeric_count / len(row) >= numeric_threshold
MostlyNumeric(row) ==
    10 * numeric_count(row) >= numeric_threshold * Len(row.cells)

\* the fallback loop that starts at row 0 and does not skip it
RECURSIVE ScanNumericFromZero(_, _)
ScanNumericFromZero(d, i) ==
    IF i >= Len(d.rows) THEN -1
    ELSE IF MostlyNumeric(d.rows[i + 1]) THEN i
    ELSE ScanNumericFromZero(d, i + 1)

\* the fallback loop over df.iterrows(), from index i on
RECURSIVE ScanNumeric(_, _)
ScanNumeric(d, i) ==
    IF i >= Len(d.rows) THEN -1
    ELSE IF i # 0 /\ MostlyNumeric(d.rows[i + 1]) THEN i
    ELSE ScanNumeric(d, i + 1)

\* defined for a frame with at least one row: df.iloc[0] raises on none
detect_header_row(d) ==
    IF HasIndicator(d.rows[1]) THEN 0
    ELSE IF ScanIndicators(d, 0) >= 0 THEN ScanIndicators(d, 0)
    ELSE IF ScanNumeric(d, 0) >= 0 THEN ScanNumeric(d, 0)
    ELSE 0

(***************************************************************************)
(* The steps of load_zerodha_pnl.                                          *)
(***************************************************************************)
column_mapping(name) ==
    CASE name \in {"Tradingsymbol", "Instrument"} -> "Symbol"
      [] name = "Qty"                             -> "Quantity"
      [] name = "Buy Amount"                      -> "Buy Value"
      [] name = "Sell Amount"                     -> "Sell Value"
      [] name \in {"P&L", "Profit And Loss"}      -> "Realized P&L"
      [] OTHER                                    -> name

clean_column_names(d) ==
    [d EXCEPT !.columns =
        [j \in DOMAIN d.columns |->
            StrCell(column_mapping(Title(Strip(PyStr(d.columns[j])))))]]

\* df.columns = df.iloc[header_idx]; df = df[header_idx + 1:], or the
\* cleaning of the labels when header_idx is 0
SetHeader(d, header_idx) ==
    IF header_idx > 0
    THEN [columns |-> d.rows[header_idx + 1].cells,
          dtypes  |-> d.dtypes,
          rows    |-> SubSeq(d.rows, header_idx + 2, Len(d.rows))]
    ELSE clean_column_names(d)

sensitive_columns == {"Client Id", "Order Id", "Trade Id"}

DropSensitive(d) == WithoutColumns(d, sensitive_columns)

null_representations == {"nan", "None", "null", ""}

\* df[col].astype(str).str.strip(), then the null spellings become NaN
CleanText(c) ==
    IF Strip(PyStr(c)) \in null_representations THEN NaNCell
    ELSE StrCell(Strip(PyStr(c)))

\* df[col] is a DataFrame, which has no .str, when the label col occurs twice
SanitizeRaises(d) ==
    \E j \in DOMAIN DropSensitive(d).columns :
        /\ DropSensitive(d).dtypes[j] = "object"
        /\ Duplicated(DropSensitive(d), j)

sanitize_data(d) ==
    LET kept == DropSensitive(d) IN
    WithCells(kept,
        [i \in DOMAIN kept.rows |->
            [j \in DOMAIN kept.columns |->
                IF kept.dtypes[j] = "object"
                THEN CleanText(kept.rows[i].cells[j])
                ELSE kept.rows[i].cells[j]]])

numeric_columns == {"Quantity", "Buy Value", "Sell Value", "Realized P&L"}

\* pd.to_numeric of the text as it stands
ConvertCellPlain(c) == ToNumeric(StrCell(PyStr(c)))

\* commas removed, "(" turned into "-", ")" removed, then pd.to_numeric
ConvertCell(c) ==
    ToNumeric(StrCell(Replace(Replace(Replace(PyStr(c), ",", ""),
                                      "(", "-"), ")", "")))

\* with a numeric label that occurs twice df[col] is a DataFrame: .str
\* raises, and so does pd.to_numeric in the handler
ConvertRaises(d) ==
    \E j \in DOMAIN d.columns :
        /\ d.columns[j] \in {StrCell(name) : name \in numeric_columns}
        /\ Duplicated(d, j)

convert_numeric_columns(d) ==
    LET Numeric(j) ==
            d.columns[j] \in {StrCell(name) : name \in numeric_columns}
    IN [columns |-> d.columns,
        dtypes  |-> [j \in DOMAIN d.dtypes |->
                       IF Numeric(j) THEN "number" ELSE d.dtypes[j]],
        rows    |-> [i \in DOMAIN d.rows |->
                       [orig  |-> d.rows[i].orig,
                        cells |-> [j \in DOMAIN d.columns |->
                                      IF Numeric(j)
                                      THEN ConvertCell(d.rows[i].cells[j])
                                      ELSE d.rows[i].cells[j]]]]]

required_columns == {"Symbol", "Quantity", "Buy Value", "Sell Value",
                     "Realized P&L"}

NoExcP == ""
ExcSecurity       == "DataSecurityError"
ExcIndex          == "IndexError: single positional indexer is out-of-bounds"
ExcAttribute      == "AttributeError"
ExcType           == "TypeError"
ExcEmpty          == "DataValidationError: DataFrame is empty"
ExcMissingColumns == "DataValidationError: Missing required columns"
ExcMissingMetrics == "DataValidationError: Missing columns for metrics calculation"

\* the exception validate_data_integrity raises, NoExcP when it passes
validate_data_integrity(d) ==
    IF Len(d.rows) = 0 \/ Len(d.columns) = 0 THEN ExcEmpty
    ELSE IF \E name \in required_columns : ~InColumns(d, name)
         THEN ExcMissingColumns
    ELSE NoExcP

\* comparisons with NaN are False
Win(pnl)        == NotNa(pnl) /\ pnl.n > 0
Loss(pnl)       == NotNa(pnl) /\ pnl.n < 0
\* a flag that would also hold for a profit: Realized P&L >= 0
BreakEvenOrWin(pnl) == NotNa(pnl) /\ pnl.n >= 0
Break_Even(pnl) == NotNa(pnl) /\ pnl.n = 0

\* np.where(den != 0, num / den * scale, 0)
WhereQuotient(num, den, scale) ==
    IF ~NotNa(den) \/ (den.n # 0 /\ ~NotNa(num)) THEN NaNCell
    ELSE IF den.n = 0 THEN FloatCell(0)
    ELSE RatioCell(num.n * scale, den.n)

Abs(c) == IF ~NotNa(c) THEN NaNCell
          ELSE FloatCell(IF c.n < 0 THEN 0 - c.n ELSE c.n)

\* 'date' in col.lower() raises on a label that is no text
DeriveRaises(d) == \E j \in DOMAIN d.columns : d.columns[j].k # "str"

\* called on a validated frame: the five required columns are there.  No
\* label of the model's files holds "date" or "time".
calculate_derived_metrics(d) ==
    LET pnl == ColumnOf(d, "Realized P&L")
        buy == ColumnOf(d, "Buy Value")
        qty == ColumnOf(d, "Quantity")
        Cell(i, j) == d.rows[i].cells[j]
        d1 == AppendColumn(d, "Win", "bool",
                  [i \in DOMAIN d.rows |-> BoolCell(Win(Cell(i, pnl)))])
        d2 == AppendColumn(d1, "Loss", "bool",
                  [i \in DOMAIN d.rows |-> BoolCell(Loss(Cell(i, pnl)))])
        d3 == AppendColumn(d2, "Break_Even", "bool",
                  [i \in DOMAIN d.rows |-> BoolCell(Break_Even(Cell(i, pnl)))])
        d4 == AppendColumn(d3, "Return_Percentage", "number",
                  [i \in DOMAIN d.rows |->
                      WhereQuotient(Cell(i, pnl), Cell(i, buy), 100)])
        d5 == AppendColumn(d4, "Position_Size", "number",
                  [i \in DOMAIN d.rows |-> Abs(Cell(i, qty))])
    IN  AppendColumn(d5, "Avg_Entry_Price", "number",
            [i \in DOMAIN d.rows |->
                WhereQuotient(Cell(i, buy), Cell(i, qty), 1)])

(***************************************************************************)
(* load_zerodha_pnl on a file source [kind, exists, ext, size, lines]: a   *)
(* path ("path"), an open stream with a name ("named") or without one     *)
(* ("stream"); ext is the extension of the path or name, lines the CSV     *)
(* text.  Streams can seek and tell.  No source holds a workbook.          *)
(***************************************************************************)
supported_extensions == {".csv", ".xlsx", ".xls"}
max_file_size == 50 * 1024 * 1024

\* os.path.splitext of the path or of the stream's name, ".bin" without name
file_ext(src) == IF src.kind = "stream" THEN ".bin" ELSE src.ext

\* the size check with the limit itself refused
ValidateFileSecurityStrict(src) ==
    IF src.kind = "path" /\ ~src.exists THEN ExcSecurity
    ELSE IF src.size >= max_file_size THEN ExcSecurity
    ELSE IF Lower(file_ext(src)) \notin supported_extensions THEN ExcSecurity
    ELSE NoExcP

\* the exception validate_file_security raises, NoExcP when it passes
validate_file_security(src) ==
    IF src.kind = "path" /\ ~src.exists THEN ExcSecurity
    ELSE IF src.size > max_file_size THEN ExcSecurity
    ELSE IF Lower(file_ext(src)) \notin supported_extensions THEN ExcSecurity
    ELSE NoExcP

LoadRaised(e, header_idx) ==
    [outcome |-> "raised", exc |-> e, header_idx |-> header_idx,
     df |-> NoFrame]

LoadReturned(header_idx, d) ==
    [outcome |-> "returned", exc |-> NoExcP, header_idx |-> header_idx,
     df |-> d]

\* from the detected header on
LoadFrom(raw, header_idx) ==
    LET d1 == SetHeader(raw, header_idx) IN
    IF SanitizeRaises(d1) THEN LoadRaised(ExcAttribute, header_idx)
    ELSE LET d2 == sanitize_data(d1) IN
    IF ConvertRaises(d2) THEN LoadRaised(ExcType, header_idx)
    ELSE LET d3 == convert_numeric_columns(d2) IN
    IF validate_data_integrity(d3) # NoExcP
    THEN LoadRaised(validate_data_integrity(d3), header_idx)
    ELSE IF DeriveRaises(d3) THEN LoadRaised(ExcAttribute, header_idx)
    ELSE LoadReturned(header_idx, calculate_derived_metrics(d3))

\* file_source.endswith(('.xlsx', '.xls')), of the path or of the stream's
\* name, the letters as they are; False for a stream without a name
is_excel(src) == src.kind # "stream" /\ src.ext \in {".xlsx", ".xls"}

\* the reader the call gets to: none when validation refuses the source
ReaderCalled(src) ==
    IF validate_file_security(src) # NoExcP THEN "none"
    ELSE IF is_excel(src) THEN "read_excel" ELSE "read_csv"

\* pd.read_excel finds CSV text where it expects a workbook
ExcExcelFormat == "ValueError: Excel file format cannot be determined"

load_zerodha_pnl(src) ==
    IF validate_file_security(src) # NoExcP
    THEN LoadRaised(validate_file_security(src), -1)
    ELSE IF is_excel(src) THEN LoadRaised(ExcExcelFormat, -1)
    ELSE IF Len(read_csv(src.lines).rows) = 0 THEN LoadRaised(ExcIndex, -1)
    ELSE LoadFrom(read_csv(src.lines),
                  detect_header_row(read_csv(src.lines)))

(***************************************************************************)
(* calculate_comprehensive_metrics.  Amounts and rates are kept in         *)
(* hundredths, the two decimals of round(x, 2).                            *)
(***************************************************************************)
\* df[name].sum() of a boolean column
CountTrue(d, name) ==
    Cardinality({i \in DOMAIN d.rows :
                    d.rows[i].cells[ColumnOf(d, name)].n = 1})

\* df[name].sum() of a numeric column: NaN is skipped
RECURSIVE SumFrom(_, _, _)
SumFrom(d, j, i) ==
    IF i > Len(d.rows) THEN 0
    ELSE (IF NotNa(d.rows[i].cells[j]) THEN d.rows[i].cells[j].n ELSE 0)
         + SumFrom(d, j, i + 1)

\* round(part / total * 100, 2), in hundredths
Rate(part, total) ==
    IF total > 0 THEN (2 * part * 10000 + total) \div (2 * total) ELSE 0

\* _calculate_consecutive_trades: the loop from row i on
\* the loop without the reset of consecutive_count
RECURSIVE CountedFrom(_, _, _, _, _)
CountedFrom(d, j, i, consecutive_count, max_consecutive) ==
    IF i > Len(d.rows) THEN max_consecutive
    ELSE IF d.rows[i].cells[j].n = 1
    THEN CountedFrom(d, j, i + 1, consecutive_count + 1, consecutive_count + 1)
    ELSE CountedFrom(d, j, i + 1, consecutive_count, max_consecutive)

RECURSIVE ConsecutiveFrom(_, _, _, _, _)
ConsecutiveFrom(d, j, i, consecutive_count, max_consecutive) ==
    IF i > Len(d.rows) THEN max_consecutive
    ELSE IF d.rows[i].cells[j].n = 1
         THEN ConsecutiveFrom(d, j, i + 1, consecutive_count + 1,
                  IF consecutive_count + 1 > max_consecutive
                  THEN consecutive_count + 1 ELSE max_consecutive)
         ELSE ConsecutiveFrom(d, j, i + 1, 0, max_consecutive)

calculate_consecutive_trades(d, condition_col) ==
    IF ~InColumns(d, condition_col) THEN 0
    ELSE ConsecutiveFrom(d, ColumnOf(d, condition_col), 1, 0, 0)

\* a float rounded to two decimals, kept in hundredths
Rounded(h) == [k |-> "rounded", n |-> h, s |-> ""]
\* float('inf')
InfCell  == [k |-> "inf", n |-> 0, s |-> ""]
Infinite == StrCell("Infinite")

\* numerator and denominator of a float of the model
Num(c) == c.n
Den(c) == IF c.k = "ratio" THEN c.d ELSE 1

\* round(p / q, 2) in hundredths, q > 0; a tie goes to the even hundredth
RoundRatio(p, q) ==
    LET a  == IF p < 0 THEN 0 - p ELSE p
        h  == (100 * a) \div q
        r  == (100 * a) % q
        up == IF 2 * r > q \/ (2 * r = q /\ h % 2 = 1) THEN h + 1 ELSE h
    IN  IF p < 0 THEN 0 - up ELSE up

\* round(x, 2): NaN stays NaN
Round2(c) == IF ~NotNa(c) THEN NaNCell ELSE Rounded(RoundRatio(Num(c), Den(c)))

\* df[name] as the sequence of its cells
Series(d, name) ==
    [i \in DOMAIN d.rows |-> d.rows[i].cells[ColumnOf(d, name)]]

\* .sum(): NaN is skipped, the sum of nothing is 0
RECURSIVE SumCells(_)
SumCells(cells) ==
    IF cells = <<>> THEN 0
    ELSE (IF NotNa(cells[1]) THEN cells[1].n ELSE 0) + SumCells(Tail(cells))

\* .mean() of whole amounts: NaN when there is no value
Mean(cells) ==
    LET values == SelectSeq(cells, NotNa) IN
    IF values = <<>> THEN NaNCell ELSE RatioCell(SumCells(values), Len(values))

\* the quotient with its sign kept
RiskRewardSigned(avg_win, avg_loss) ==
    IF NotNa(avg_loss) /\ Num(avg_loss) = 0 THEN InfCell
    ELSE IF ~NotNa(avg_loss) \/ ~NotNa(avg_win) THEN NaNCell
    ELSE LET p == Num(avg_win) * Den(avg_loss)
             q == Den(avg_win) * Num(avg_loss)
         IN  RatioCell(IF q < 0 THEN 0 - p ELSE p, IF q < 0 THEN 0 - q ELSE q)

\* abs(avg_win / avg_loss) if avg_loss != 0 else float('inf')
RiskReward(avg_win, avg_loss) ==
    IF NotNa(avg_loss) /\ Num(avg_loss) = 0 THEN InfCell
    ELSE IF ~NotNa(avg_loss) \/ ~NotNa(avg_win) THEN NaNCell
    ELSE LET p == Num(avg_win) * Den(avg_loss)
             q == Den(avg_win) * Num(avg_loss)
         IN  RatioCell(IF p < 0 THEN 0 - p ELSE p, IF q < 0 THEN 0 - q ELSE q)

\* gross_profit / gross_loss if gross_loss > 0 else float('inf')
ProfitFactor(gross_profit, gross_loss) ==
    IF gross_loss > 0 THEN RatioCell(gross_profit, gross_loss) ELSE InfCell

\* round(x, 2) if x != float('inf') else "Infinite"
RoundOrInfinite(c) == IF c = InfCell THEN Infinite ELSE Round2(c)

\* df['Realized P&L'].cumsum(): NaN where the cell is NaN, the sum goes on
cumulative_pnl(d) ==
    LET pnl == Series(d, "Realized P&L") IN
    [i \in DOMAIN pnl |->
        IF NotNa(pnl[i]) THEN FloatCell(SumCells(SubSeq(pnl, 1, i)))
        ELSE NaNCell]

\* .max() and .min(): NaN is skipped, NaN when there is no value
MaxCell(cells) ==
    LET values == SelectSeq(cells, NotNa) IN
    IF values = <<>> THEN NaNCell
    ELSE FloatCell(CHOOSE x \in {values[i].n : i \in DOMAIN values} :
                      \A i \in DOMAIN values : values[i].n <= x)

MinCell(cells) ==
    LET values == SelectSeq(cells, NotNa) IN
    IF values = <<>> THEN NaNCell
    ELSE FloatCell(CHOOSE x \in {values[i].n : i \in DOMAIN values} :
                      \A i \in DOMAIN values : values[i].n >= x)

\* cumulative_pnl.expanding().max()
running_max(d) ==
    [i \in DOMAIN d.rows |-> MaxCell(SubSeq(cumulative_pnl(d), 1, i))]

\* the drawdown against the first cumulative value instead of the highest
DrawdownFromStart(d) ==
    [i \in DOMAIN d.rows |->
        IF NotNa(cumulative_pnl(d)[i])
        THEN FloatCell(cumulative_pnl(d)[i].n
                       - SelectSeq(cumulative_pnl(d), NotNa)[1].n)
        ELSE NaNCell]

\* cumulative_pnl - running_max
drawdown(d) ==
    [i \in DOMAIN d.rows |->
        IF NotNa(cumulative_pnl(d)[i]) /\ NotNa(running_max(d)[i])
        THEN FloatCell(cumulative_pnl(d)[i].n - running_max(d)[i].n)
        ELSE NaNCell]

\* two floats of the model are the same number
SameNumber(a, b) == Num(a) * Den(b) = Num(b) * Den(a)

\* mean / std of the values: a number the model does not work out
MeanOverStd(values) == [k |-> "mean_over_std", n |-> 0, s |-> "",
                        of |-> values]

\* mean() / std() of Return_Percentage if std() != 0 else 0; std() is NaN
\* below two values, and NaN != 0.  The equal values of the model are exact
\* floats, so their std() is exactly 0.
SharpeRatio(d) ==
    IF ~InColumns(d, "Return_Percentage") THEN FloatCell(0)
    ELSE LET values == SelectSeq(Series(d, "Return_Percentage"), NotNa) IN
         IF Len(values) < 2 THEN NaNCell
         ELSE IF \A i \in DOMAIN values : SameNumber(values[i], values[1])
         THEN FloatCell(0)
         ELSE MeanOverStd(values)

\* what df['Realized P&L'] raises where the column check does not stop the call
MetricsKeyError(input, e) ==
    [outcome |-> "raised", exc |-> "KeyError: 'Realized P&L'",
     input |-> input, m |-> <<>>]

MetricsRaised(input, e) ==
    [outcome |-> "raised", exc |-> e, input |-> input, m |-> <<>>]

\* the metrics dict: counts as integers, Total_P&L and the rates as integers
\* in hundredths, the other entries as floats of the model or "Infinite"
calculate_comprehensive_metrics(input, d) ==
    IF ~InColumns(d, "Realized P&L")
    THEN MetricsRaised(input, ExcMissingMetrics)
    ELSE
    LET total_trades      == Len(d.rows)
        winning_trades    == IF InColumns(d, "Win")
                             THEN CountTrue(d, "Win") ELSE 0
        losing_trades     == IF InColumns(d, "Loss")
                             THEN CountTrue(d, "Loss") ELSE 0
        break_even_trades == IF InColumns(d, "Break_Even")
                             THEN CountTrue(d, "Break_Even") ELSE 0
        pnl          == Series(d, "Realized P&L")
        avg_win      == IF winning_trades > 0
                        THEN Mean(SelectSeq(pnl, Win)) ELSE FloatCell(0)
        avg_loss     == IF losing_trades > 0
                        THEN Mean(SelectSeq(pnl, Loss)) ELSE FloatCell(0)
        gross_profit == SumCells(SelectSeq(pnl, Win))
        gross_loss   == 0 - SumCells(SelectSeq(pnl, Loss))
        max_drawdown == MinCell(drawdown(d))
        sharpe_ratio == IF SharpeRatio(d).k = "mean_over_std"
                        THEN SharpeRatio(d) ELSE Round2(SharpeRatio(d))
    IN [outcome |-> "returned", exc |-> NoExcP, input |-> input,
        m |-> ("Total_P&L" :> 100 * SumFrom(d, ColumnOf(d, "Realized P&L"), 1))
           @@ ("Total_Trades" :> total_trades)
           @@ ("Winning_Trades" :> winning_trades)
           @@ ("Losing_Trades" :> losing_trades)
           @@ ("Break_Even_Trades" :> break_even_trades)
           @@ ("Win_Rate" :> Rate(winning_trades, total_trades))
           @@ ("Loss_Rate" :> Rate(losing_trades, total_trades))
           @@ ("Max_Consecutive_Wins" :>
                   calculate_consecutive_trades(d, "Win"))
           @@ ("Max_Consecutive_Losses" :>
                   calculate_consecutive_trades(d, "Loss"))
           @@ ("Average_Win" :> Round2(avg_win))
           @@ ("Average_Loss" :> Round2(avg_loss))
           @@ ("Risk_Reward_Ratio" :>
                   RoundOrInfinite(RiskReward(avg_win, avg_loss)))
           @@ ("Profit_Factor" :>
                   RoundOrInfinite(ProfitFactor(gross_profit, gross_loss)))
           @@ ("Max_Drawdown" :> Round2(max_drawdown))
           @@ ("Sharpe_Ratio" :> sharpe_ratio)
           @@ ("Best_Single_Trade" :> Round2(MaxCell(pnl)))
           @@ ("Worst_Single_Trade" :> Round2(MinCell(pnl)))]

(***************************************************************************)
(* SpecProc: one file is loaded, then metrics are computed on the table    *)
(* load_zerodha_pnl returned or on a table a caller cut from it.           *)
(***************************************************************************)
MaxDataRows == 3     \* lines of a file after its first line

ScenarioAColumns == <<"Symbol", "Qty", "Buy Value", "Sell Value",
                      "Realized P&L">>
LooseColumns     == <<" symbol ", "quantity", "buy amount", "sell amount",
                      "p&l">>
TitleLine5       == <<"Tradebook", "", "", "", "">>

Reliance   == <<"RELIANCE", "10", "2500", "2600", "100">>
Tcs        == <<"TCS", "5", "1500", "1400", "-100">>
Infy       == <<"INFY", "2", "300.0", "300.0", "0.0">>
HeaderRow5 == <<"Symbol", "Quantity", "Buy Value", "Sell Value",
                "Realized P&L">>
Sbin       == <<"SBIN", "-3", "1,000", "900", "(100)">>
Hdfc       == <<"HDFC", "4", "", "", "abc">>

TradeRows == {Reliance, Tcs, Infy}

PiiColumns == {"Client Id", "Order Id", "PAN", "Phone"}
SensitiveLine == HeaderRow5 \o <<"Client Id", "Order Id", "PAN", "Phone">>
TitleLine9    == <<"Tradebook", "", "", "", "", "", "", "", "">>
Reliance9     == Reliance \o <<"AB1234", "O-1", "ABCDE1234F", "98765">>
Tcs9          == Tcs \o <<"AB1234", "O-2", "ABCDE1234F", "98765">>

\* the file of test_corrupted_file_handling: three columns, text in numeric
\* cells, missing cells
CorruptedColumns == <<"Symbol", "Quantity", "Buy Value">>
Reliance3 == <<"RELIANCE", "10", "2500.0">>
Tcs3      == <<"TCS", "five", "invalid_value">>
Infy3     == <<"INFY", "", "  # Missing values">>

\* an export with the quantity under two labels that both map to Quantity
TwinQuantityColumns == <<"Symbol", "Qty", "Quantity", "Buy Value",
                         "Sell Value", "Realized P&L">>
Reliance6 == <<"RELIANCE", "10", "10", "2500", "2600", "100">>

\* exports with a title line and the header further down: one with the
\* quantity under "Qty", one with a sixth column in lower case
TitleLine6      == <<"Tradebook", "", "", "", "", "">>
ExchangeColumns == HeaderRow5 \o <<"exchange">>
RelianceNse     == Reliance \o <<"NSE">>

FilesOver(first_lines, data_lines) ==
    {<<h>> \o b : h \in first_lines, b \in SeqsUpTo(data_lines, MaxDataRows)}

CsvFiles ==
    FilesOver({ScenarioAColumns, LooseColumns, TitleLine5},
              {Reliance, Tcs, Infy, HeaderRow5, Sbin, Hdfc})
    \cup FilesOver({SensitiveLine, TitleLine9},
                   {Reliance9, Tcs9, SensitiveLine})
    \cup FilesOver({CorruptedColumns}, {Reliance3, Tcs3, Infy3})
    \cup FilesOver({TwinQuantityColumns}, {Reliance6})
    \cup FilesOver({TitleLine5}, {Reliance, ScenarioAColumns})
    \cup FilesOver({TitleLine6}, {RelianceNse, ExchangeColumns})

\* a path to a file that is there
FileSource(ext, size, lines) ==
    [kind |-> "path", exists |-> TRUE, ext |-> ext, size |-> size,
     lines |-> lines]

SourceKinds == {"path", "named", "stream"}
Extensions  == {".csv", ".CSV", ".xlsx", ".XLSX", ".xls", ".txt", ".bin", ""}
Sizes       == {0, 2048, max_file_size - 1, max_file_size, max_file_size + 1}

\* every way a source of the model's extensions and sizes can be passed
SourceDescriptors ==
    [kind : SourceKinds, exists : BOOLEAN, ext : Extensions, size : Sizes,
     lines : {<<ScenarioAColumns, Reliance>>}]

\* the sources of the model: each file as a .csv path, and the text of one
\* file under every descriptor
FileSources ==
    {FileSource(".csv", 2048, lines) : lines \in CsvFiles}
    \cup {src \in SourceDescriptors : src.kind # "path" => src.exists}

NoLoad    == [outcome |-> "none", exc |-> NoExcP, header_idx |-> -1,
              df |-> NoFrame]
NoMetrics == [outcome |-> "none", exc |-> NoExcP, input |-> "", m |-> <<>>]

DerivedColumns == {"Win", "Loss", "Break_Even", "Return_Percentage",
                   "Position_Size", "Avg_Entry_Price"}

\* the tables a caller passes to calculate_comprehensive_metrics: the loaded
\* table, its columns as the file brought them, those without the P&L, and
\* the loaded table with its derived columns but without the P&L
MetricInputs == {"table", "columns", "no_pnl", "flags"}

MetricTable(d, input) ==
    CASE input = "table"   -> d
      [] input = "columns" -> WithoutColumns(d, DerivedColumns)
      [] input = "no_pnl"  ->
             WithoutColumns(d, DerivedColumns \cup {"Realized P&L"})
      [] input = "flags"   -> WithoutColumns(d, {"Realized P&L"})

InitProc ==
    /\ StoreStart /\ SecretsStart /\ plan = <<>> /\ HashIdle
    /\ ppc = "start"
    /\ file \in FileSources
    /\ loaded = NoLoad
    /\ metrics = NoMetrics
    /\ reader = "none"

LoadZerodhaPnl ==
    /\ ppc = "start"
    /\ loaded' = load_zerodha_pnl(file)
    /\ ppc' = "loaded"
    /\ reader' = ReaderCalled(file)
    /\ UNCHANGED <<file, metrics, storeVars, hashVars, secretVars>>

\* a computation that works on the caller's table instead of on selections
\* of it: the table the caller holds becomes the one the metrics were read from
CalculateMetricsInPlace ==
    /\ ppc = "loaded"
    /\ loaded.outcome = "returned"
    /\ \E input \in MetricInputs :
          /\ metrics' = calculate_comprehensive_metrics(
                            input, MetricTable(loaded.df, input))
          /\ loaded' = [loaded EXCEPT !.df =
                           WithoutColumns(MetricTable(loaded.df, input),
                                          {"Win", "Loss"})]
    /\ ppc' = "measured"
    /\ UNCHANGED <<file, reader, storeVars, hashVars, secretVars>>

CalculateMetrics ==
    /\ ppc = "loaded"
    /\ loaded.outcome = "returned"
    /\ \E input \in MetricInputs :
          metrics' = calculate_comprehensive_metrics(
                         input, MetricTable(loaded.df, input))
    /\ ppc' = "measured"
    /\ UNCHANGED <<file, loaded, reader, storeVars, hashVars, secretVars>>

NextProc ==
    \/ LoadZerodhaPnl
    \/ CalculateMetrics

SpecProc == InitProc /\ [][NextProc]_vars

(***************************************************************************)
(* SpecMetrics: calculate_comprehensive_metrics on a normalized table a    *)
(* caller holds: up to MaxTrades trades of one unit bought for 1000, in    *)
(* every order of their Realized P&L, with the columns                     *)
(* calculate_derived_metrics adds.  The table stands in `loaded`.          *)
(***************************************************************************)
MaxTrades == 3

PnlCells == {FloatCell(300), FloatCell(100), FloatCell(0), FloatCell(0 - 100),
             FloatCell(0 - 200), NaNCell}

TradeTable(pnls) ==
    [columns |-> <<StrCell("Symbol"), StrCell("Quantity"),
                   StrCell("Buy Value"), StrCell("Sell Value"),
                   StrCell("Realized P&L")>>,
     dtypes  |-> <<"object", "number", "number", "number", "number">>,
     rows    |-> [i \in DOMAIN pnls |->
                    [orig  |-> i - 1,
                     cells |-> <<StrCell("NIFTY"), FloatCell(1),
                                 FloatCell(1000),
                                 IF NotNa(pnls[i])
                                 THEN FloatCell(1000 + pnls[i].n)
                                 ELSE NaNCell,
                                 pnls[i]>>]]]

MetricTables ==
    {calculate_derived_metrics(TradeTable(pnls)) :
        pnls \in SeqsUpTo(PnlCells, MaxTrades)}

InitMetrics ==
    /\ StoreStart /\ SecretsStart /\ plan = <<>> /\ HashIdle
    /\ ppc = "loaded"
    /\ file = <<>>
    /\ loaded \in {LoadReturned(0, d) : d \in MetricTables}
    /\ metrics = NoMetrics
    /\ reader = "none"

NextMetrics ==
    \/ CalculateMetrics

SpecMetrics == InitMetrics /\ [][NextMetrics]_vars

(***************************************************************************)
(* get_trade_statistics, on a connection of its own: it reads the          *)
(* committed rows.                                                         *)
(***************************************************************************)
\* the realized_pnl column: a NaN float was bound as NULL
realized_pnl(rows) ==
    [i \in DOMAIN rows |-> DictGet(rows[i].td, "realized_pnl")]

\* SUM and AVG skip NULL and are NULL when there is no value
SqlSum(cells) ==
    IF SelectSeq(cells, NotNa) = <<>> THEN NoneValue
    ELSE FloatCell(SumCells(cells))

SqlAvg(cells) ==
    IF SelectSeq(cells, NotNa) = <<>> THEN NoneValue
    ELSE RatioCell(SumCells(cells), Len(SelectSeq(cells, NotNa)))

\* x or 0: None and 0.0 give 0
OrZero(c) == IF c = NoneValue \/ Num(c) = 0 THEN IntCell(0) ELSE c

\* the source tags in the order GROUP BY data_source walks them
SourceOrder == <<"source_a", "source_b">>

\* COUNT(*) without the grouping: the rows of the whole table
TotalCount(rows, s) == Len(rows)

\* COUNT(*) of the group of data_source s
SourceCount(rows, s) ==
    Cardinality({i \in DOMAIN rows : rows[i].data_source = s})

\* ORDER BY count DESC, groups of equal count in GROUP BY order
RECURSIVE InsertByCountDesc(_, _)
InsertByCountDesc(e, sorted) ==
    IF sorted = <<>> THEN <<e>>
    ELSE IF e.count > Head(sorted).count THEN <<e>> \o sorted
    ELSE <<Head(sorted)>> \o InsertByCountDesc(e, Tail(sorted))

RECURSIVE OrderByCountDesc(_)
OrderByCountDesc(entries) ==
    IF entries = <<>> THEN <<>>
    ELSE InsertByCountDesc(entries[Len(entries)],
             OrderByCountDesc(SubSeq(entries, 1, Len(entries) - 1)))

\* SELECT data_source, COUNT(*), SUM(realized_pnl) ... GROUP BY data_source
SourceStats(rows) ==
    LET groups == SelectSeq(SourceOrder, LAMBDA s : SourceCount(rows, s) > 0)
    IN  OrderByCountDesc(
            [g \in DOMAIN groups |->
                [source |-> groups[g],
                 count  |-> SourceCount(rows, groups[g]),
                 pnl    |-> OrZero(SqlSum(realized_pnl(
                                SelectSeq(rows, LAMBDA r :
                                    r.data_source = groups[g]))))]])

get_trade_statistics ==
    LET pnl    == realized_pnl(trades)
        wins   == SelectSeq(pnl, Win)
        losses == SelectSeq(pnl, Loss)
    IN  [total_trades   |-> Len(trades),
         total_pnl      |-> OrZero(SqlSum(pnl)),
         avg_win        |-> OrZero(SqlAvg(wins)),
         avg_loss       |-> OrZero(SqlAvg(losses)),
         winning_trades |-> Len(wins),
         losing_trades  |-> Len(losses),
         win_rate       |-> IF Len(trades) > 0
                            THEN RatioCell(Len(wins) * 100, Len(trades))
                            ELSE IntCell(0),
         sources        |-> SourceStats(trades)]

C2_ReturnCountsInsertedRows ==
    /\ [](Hashes(trades) = submitted /\ Len(trades) = Cardinality(submitted))
    /\ [][\A w \in Writers :
            (pc[w] = "commit" /\ pc'[w] = "idle") =>
                /\ inserted_count[w] = Len(trades') - Len(trades)
                /\ inserted_count[w] =
                     Cardinality(TableFingerprints(df[w]) \ Hashes(trades))
         ]_vars

\* C2 witness: on a non-empty store, a call is about to return 1 for a table
\* of two records, having skipped the other as a duplicate, after an earlier
\* call returned.
C2_Witness ==
    \E w \in Writers :
        /\ pc[w] = "commit" /\ Len(df[w]) = 2 /\ inserted_count[w] = 1
        /\ trades # <<>> /\ submitted # {}

\* C3: no two stored trades share a data_hash, whatever the interleaving of
\* the SELECT and INSERT statements of two writers.
C3_UniqueFingerprints == verify_integrity

\* C3 witness: both writers found the same fingerprint absent, one inserted
\* and committed it, and the other is about to insert it.
C3_Witness ==
    \E w \in Writers :
        /\ pc[w] = "insert"
        /\ cur[w].data_hash \in Hashes(trades)

\* C4: store_trades never raises because the fingerprint of a record is
\* already stored, also when the other writer inserts it between the check
\* and the insert.
C4_NeverRaisesOnDuplicate == \A w \in Writers : exc[w] # ExcUnique

\* C5: two records have the same fingerprint exactly when their canonical
\* field values (trade_data: the ten fields after str() and float()) are the
\* same, whatever the order of the columns of the row and the insertion
\* order of the dict: equal values give equal fingerprints and a difference
\* in any field gives a different fingerprint.
C5_FingerprintStable ==
    hash1 # "" => ((hash1 = hash2) <=> (Canon(hrow1) = Canon(hrow2)))

\* C5 witness: two rows written differently (other column order, other
\* cells) with the same canonical values, the second dict in another
\* insertion order, and equal fingerprints.
C5_Witness ==
    /\ hash1 # "" /\ hash1 = hash2
    /\ Len(hrow1) = 3 /\ Len(hrow2) = 2
    /\ hrow1[1][1] = "Symbol" /\ hrow2[1][1] = "Realized P&L"
    /\ hperm[1] # 1

(***************************************************************************)
(* Claims about the processor.                                             *)
(***************************************************************************)
LoadDone == ppc \in {"loaded", "measured"}

\* the rows of the raw table, as lines of the file, by their index in the
\* frame: row i is line i + 2
RawRow(i) == file.lines[i + 2]
RawRowCount == Len(file.lines) - 1

\* the labels the input table gives its columns: the first line, and the
\* header row where a later row is selected
InputColumnNames ==
    Range(file.lines[1])
    \cup (IF loaded.header_idx > 0 THEN Range(RawRow(loaded.header_idx))
          ELSE {})

\* C6: whenever load_zerodha_pnl returns a table for an input that has a
\* column named Client Id, Order Id, PAN or Phone, the returned table has no
\* column of that name.
C6_NoPiiColumns ==
    (LoadDone /\ loaded.outcome = "returned") =>
        \A name \in PiiColumns \cap InputColumnNames :
            ~InColumns(loaded.df, name)

\* the number of rows of table d whose Realized P&L is not null
NonNullPnl(d) ==
    Cardinality({i \in DOMAIN d.rows :
                    NotNa(d.rows[i].cells[ColumnOf(d, "Realized P&L")])})

FlagCount ==
    metrics.m["Winning_Trades"] + metrics.m["Losing_Trades"]
        + metrics.m["Break_Even_Trades"]

\* C7 (as stated): for every table calculate_comprehensive_metrics accepts,
\* Winning_Trades + Losing_Trades + Break_Even_Trades = Total_Trades.
C7_CountsSumToTotal ==
    (ppc = "measured" /\ metrics.outcome = "returned") =>
        FlagCount = metrics.m["Total_Trades"]

\* C7 (amended): on a table that carries the Win, Loss and Break_Even flags
\* of load_zerodha_pnl the three counts add up to the number of rows whose
\* Realized P&L is not null, which is Total_Trades exactly when no P&L is
\* null; on a table without the flag columns the three counts are 0.
C7_CountsSumToNonNullPnl ==
    (ppc = "measured" /\ metrics.outcome = "returned") =>
        LET t == MetricTable(loaded.df, metrics.input) IN
        /\ metrics.m["Total_Trades"] = Len(t.rows)
        /\ (InColumns(t, "Win") /\ InColumns(t, "Loss")
               /\ InColumns(t, "Break_Even"))
              => FlagCount = NonNullPnl(t)
        /\ ~(InColumns(t, "Win") \/ InColumns(t, "Loss")
               \/ InColumns(t, "Break_Even"))
              => FlagCount = 0

\* C7 witness: metrics of a loaded table of two rows or more in which one
\* Realized P&L is null and the others are counted.
C7_Witness ==
    /\ ppc = "measured" /\ metrics.outcome = "returned"
    /\ metrics.input = "table"
    /\ metrics.m["Total_Trades"] >= 2
    /\ NonNullPnl(loaded.df) = metrics.m["Total_Trades"] - 1
    /\ FlagCount = metrics.m["Total_Trades"] - 1

\* the rows of the raw table with an indicator token, and those whose
\* fields are numbers for seven tenths or more, read from the file's text
TokenRows ==
    {i \in 0..(RawRowCount - 1) :
        \E j \in DOMAIN RawRow(i) :
            RawRow(i)[j] \notin NaValues
            /\ Strip(RawRow(i)[j]) \in header_indicators}

DenseRows ==
    {i \in 1..(RawRowCount - 1) :
        10 * Cardinality({j \in DOMAIN RawRow(i) : IsNumeric(RawRow(i)[j])})
            >= 7 * Len(RawRow(i))}

Least(S) == CHOOSE x \in S : \A y \in S : x <= y

\* C8: detect_header_row returns row 0 when row 0 holds an indicator token;
\* else the lowest row >= 1 that holds one; else, no row holding a token,
\* the lowest row >= 1 whose fraction of numeric cells is >= 0.7; else 0.
C8_HeaderSelection ==
    (LoadDone /\ loaded.header_idx >= 0) =>
        loaded.header_idx =
            IF 0 \in TokenRows THEN 0
            ELSE IF TokenRows # {} THEN Least(TokenRows)
            ELSE IF DenseRows # {} THEN Least(DenseRows)
            ELSE 0

\* C8 witness: the header row is row 2 and is selected although row 1,
\* before it, is a row of numbers.
C8_Witness ==
    /\ LoadDone /\ loaded.header_idx = 2
    /\ 1 \in DenseRows /\ TokenRows = {2}

\* C9: whenever load_zerodha_pnl returns a table for which a header row was
\* recognised (a row with an indicator token, row 0 included, or the
\* numeric fallback), the rows of the table are exactly the raw rows after
\* the header row, in their order.
C9_RowsFollowHeader ==
    (LoadDone /\ loaded.outcome = "returned"
        /\ (loaded.header_idx > 0 \/ 0 \in TokenRows)) =>
        [i \in DOMAIN loaded.df.rows |-> loaded.df.rows[i].orig]
            = [i \in 1..(RawRowCount - 1 - loaded.header_idx) |->
                  loaded.header_idx + i]

\* C10: a CSV file with the columns Symbol, Qty, Buy Value, Sell Value,
\* Realized P&L and trade rows only is loaded with all its rows, and the
\* metrics of the loaded table count its positive and negative P&L; for the
\* rows of RELIANCE (100) and TCS (-100) they are Total_P&L 0.0, Win_Rate
\* 50.0, one winning and one losing trade.
C10_ScenarioA ==
    (/\ LoadDone
     /\ validate_file_security(file) = NoExcP
     /\ file.lines[1] = ScenarioAColumns
     /\ RawRowCount >= 1
     /\ \A i \in 0..(RawRowCount - 1) : RawRow(i) \in TradeRows) =>
        /\ loaded.outcome = "returned"
        /\ Len(loaded.df.rows) = RawRowCount
        /\ (ppc = "measured" /\ metrics.input = "table") =>
              /\ metrics.outcome = "returned"
              /\ metrics.m["Winning_Trades"] =
                    Cardinality({i \in 0..(RawRowCount - 1) :
                                    NumericValue(RawRow(i)[5]) > 0})
              /\ metrics.m["Losing_Trades"] =
                    Cardinality({i \in 0..(RawRowCount - 1) :
                                    NumericValue(RawRow(i)[5]) < 0})
              /\ (file.lines = <<ScenarioAColumns, Reliance, Tcs>>) =>
                    /\ metrics.m["Total_P&L"] = 0
                    /\ metrics.m["Win_Rate"] = 5000
                    /\ metrics.m["Winning_Trades"] = 1
                    /\ metrics.m["Losing_Trades"] = 1

\* the frame whose labels and rows load_zerodha_pnl goes on to clean
HeaderSet == SetHeader(read_csv(file.lines),
                       detect_header_row(read_csv(file.lines)))

\* C11: load_zerodha_pnl raises DataValidationError whenever the table has
\* no rows or, after the column mapping, lacks one of Symbol, Quantity, Buy
\* Value, Sell Value, Realized P&L; and every table it returns has a row and
\* all five columns.
C11_ValidationErrorOrComplete ==
    (LoadDone /\ validate_file_security(file) = NoExcP) =>
        /\ (\/ RawRowCount = 0
            \/ Len(HeaderSet.rows) = 0
            \/ \E name \in required_columns : ~InColumns(HeaderSet, name))
              => /\ loaded.outcome = "raised"
                 /\ loaded.exc \in {ExcEmpty, ExcMissingColumns}
        /\ loaded.outcome = "returned"
              => /\ Len(loaded.df.rows) > 0
                 /\ \A name \in required_columns : InColumns(loaded.df, name)

\* C12: load_zerodha_pnl on a readable CSV file with corrupted content (a
\* required column not there, text in numeric cells, missing cells) does
\* not raise: it returns a table.
C12_CorruptedFileReturnsTable ==
    (LoadDone /\ validate_file_security(file) = NoExcP
        /\ file.lines[1] = CorruptedColumns /\ RawRowCount > 0)
        => loaded.outcome = "returned"

\* what a field of the file is to become in a numeric column: the number it
\* spells once the commas are taken out, minus the number between the
\* parentheses of "(n)", null otherwise
CoercedField(s) ==
    LET t     == Replace(Strip(s), ",", "")
        inner == SubSeq(t, 2, Len(t) - 1)
    IN  IF IsNumeric(t) THEN FloatCell(NumericValue(t))
        ELSE IF Len(t) > 2 /\ Char(t, 1) = "(" /\ Char(t, Len(t)) = ")"
                /\ AllDigits(IntPart(inner)) /\ IntPart(inner) # ""
                /\ AllDigits(FracPart(inner))
        THEN FloatCell(0 - NumericValue(inner))
        ELSE NaNCell

\* every cell of the four numeric columns of the returned table is the
\* coerced field of the file
CoercedAsClaimed ==
    \A i \in DOMAIN loaded.df.rows : \A name \in numeric_columns :
        LET j    == ColumnOf(loaded.df, name)
            cell == loaded.df.rows[i].cells[j]
            want == CoercedField(RawRow(loaded.df.rows[i].orig)[j])
        IN  /\ NotNa(cell) = NotNa(want)
            /\ NotNa(cell) => cell.n = want.n

\* two labels of the file become the same numeric label
TwinNumericLabel ==
    LET d == HeaderSet IN
    \E j \in DOMAIN d.columns :
        /\ d.columns[j] \in {StrCell(name) : name \in numeric_columns}
        /\ Duplicated(d, j)

AllowedSpellings == {".csv", ".CSV", ".xlsx", ".XLSX", ".xls"}

\* what the claim asks of a source: it is there (an open stream is), it has
\* at most 50 MB and its name ends in one of the three extensions
Acceptable(src) ==
    /\ src.kind = "path" => src.exists
    /\ src.size <= 50 * 1024 * 1024
    /\ src.kind # "stream" /\ src.ext \in AllowedSpellings

\* C14: a source is accepted only if it exists, has at most 50 MB (exactly
\* 50 MB is accepted) and has the extension csv, xlsx or xls; every other
\* source makes load_zerodha_pnl raise DataSecurityError before anything is
\* parsed, and no table is returned.
C14_AcceptedOnlyIfSecure ==
    /\ file \in SourceDescriptors =>
          \A src \in SourceDescriptors :
              (validate_file_security(src) = NoExcP) <=> Acceptable(src)
    /\ LoadDone =>
          IF Acceptable(file) THEN loaded.exc # ExcSecurity
          ELSE loaded = LoadRaised(ExcSecurity, -1)

C14_Witness ==
    /\ LoadDone /\ file.size = 50 * 1024 * 1024 /\ file.kind = "path"
    /\ loaded.outcome = "returned"

\* C21: a stored trade is never changed or removed by a later call: every
\* step keeps each stored row (fields, fingerprint, source tag) in its
\* place, so the stored fingerprints only grow; a duplicate submitted later
\* under another source tag leaves the tag of the first call on the row.
C21_StoredTradesImmutable ==
    /\ [][/\ Len(trades') >= Len(trades)
          /\ \A i \in DOMAIN trades : trades'[i] = trades[i]
          /\ Hashes(trades) \subseteq Hashes(trades')]_vars
    /\ []((Len(done) = 2 /\ done[2].outcome = "returned") =>
             \A i \in DOMAIN trades : trades[i].data_source = done[1].source)

\* the second call, under the other tag, returned and the row keeps its tag
C21_Witness ==
    /\ Len(done) = 2 /\ done[2].outcome = "returned"
    /\ done[1].source # done[2].source
    /\ Len(trades) = 2
    /\ \A i \in DOMAIN trades : trades[i].data_source = done[1].source

\* C29: store_trades is all-or-nothing per call: a call that raises (NOT
\* NULL, a constraint, a lock) persists none of its records, also not those
\* it had inserted before the failing one; the stored trades change only
\* by the commit of a call that did not raise.
C29_AllOrNothing ==
    /\ [][trades' # trades =>
             \E w \in Writers :
                 /\ pc[w] = "commit" /\ pc'[w] = "idle" /\ exc[w] = NoExc
                 /\ trades' = trades \o pending[w]]_vars
    /\ [][\A w \in Writers :
             pc[w] = "raised" =>
                 /\ \/ trades' = trades
                    \/ \E v \in Writers \ {w} :
                          pc[v] = "commit" /\ trades' = trades \o pending[v]
                 /\ pc'[w] \in {"raised", "idle"}
                 /\ pc'[w] = "idle" => pending'[w] = <<>>]_vars

\* a record with a null Quantity fails after another record of the same
\* table was inserted
C29_Witness ==
    /\ pc["w1"] = "raised" /\ exc["w1"] = ExcNotNull
    /\ Len(pending["w1"]) = 1
    /\ pending["w1"][1].data_hash \notin Hashes(trades)

(***************************************************************************)
(* Column names, whichever row holds them.                                 *)
(***************************************************************************)
\* str(col).strip().title() and the alias table, of one label
Canonical(c) == StrCell(column_mapping(Title(Strip(PyStr(c)))))

\* C27: whichever row was selected as the header, the column names are the
\* trimmed, title-cased and aliased labels of that row: right after the
\* header is set, and in the table load_zerodha_pnl returns (the derived
\* columns are named by the code and are canonical as they are).
C27_CanonicalWhicheverRow ==
    (ppc = "loaded" /\ loaded.header_idx > 0) =>
        LET raw    == read_csv(file.lines)
            header == raw.rows[loaded.header_idx + 1].cells
            named  == SetHeader(raw, loaded.header_idx).columns
        IN  /\ named = [j \in DOMAIN header |-> Canonical(header[j])]
            /\ loaded.outcome = "returned" =>
                  \A j \in DOMAIN loaded.df.columns :
                      loaded.df.columns[j] = Canonical(loaded.df.columns[j])

\* a table returned with the label "exchange" as the file spells it
C27_RawLabelReturned ==
    /\ ppc = "loaded" /\ loaded.outcome = "returned"
    /\ file.lines = <<TitleLine6, RelianceNse, ExchangeColumns, RelianceNse>>
    /\ loaded.header_idx = 1
    /\ InColumns(loaded.df, "exchange") /\ ~InColumns(loaded.df, "Exchange")

\* the header with "Qty" is refused below a title line and accepted on top
C27_AliasNotApplied ==
    /\ ppc = "loaded" /\ loaded.outcome = "raised"
    /\ file.lines = <<TitleLine5, Reliance, ScenarioAColumns, Reliance>>
    /\ loaded.header_idx = 1 /\ loaded.exc = ExcMissingColumns
    /\ load_zerodha_pnl(FileSource(".csv", 2048,
            <<ScenarioAColumns, Reliance>>)).outcome = "returned"

\* the same for the files whose first line is the header
C27_CanonicalAtRowZero ==
    (ppc = "loaded" /\ loaded.header_idx = 0 /\ file.lines \in CsvFiles) =>
        LET raw == read_csv(file.lines) IN
        /\ SetHeader(raw, 0).columns =
              [j \in DOMAIN raw.columns |-> Canonical(raw.columns[j])]
        /\ loaded.outcome = "returned" =>
              \A j \in DOMAIN loaded.df.columns :
                  loaded.df.columns[j] = Canonical(loaded.df.columns[j])

(***************************************************************************)
(* Secrets at rest.                                                       *)
(***************************************************************************)
\* C26: after save_secret(k, v) returned True, and until k is saved again or
\* deleted, the value the secrets file holds for k is not v, and get_secret(k)
\* of the object that saved it returns v.
C26_EncryptedAtRest ==
    \A name \in DOMAIN saved :
        /\ secrets_file[name] # saved[name].value
        /\ get_secret(saved[name].by, name, "") = saved[name].value

\* the same for the objects that have a cipher suite
C26_EncryptedWithCipher ==
    \A name \in DOMAIN saved :
        cipher_suite[saved[name].by] # "None" =>
            /\ secrets_file[name] # saved[name].value
            /\ get_secret(saved[name].by, name, "") = saved[name].value

\* an object without a cipher suite reads back what it saved
C26_ReadBackBySaver ==
    \A name \in DOMAIN saved :
        get_secret(saved[name].by, name, "") = saved[name].value

\* the object that read the key file while it was empty saved plain text
C26_PlainTextAtRest ==
    /\ "sensitive_data" \in DOMAIN saved
    /\ saved["sensitive_data"].value = "very_secret_value"
    /\ cipher_suite[saved["sensitive_data"].by] = "None"
    /\ secrets_file["sensitive_data"] = "very_secret_value"
    /\ key_file.content \in FernetKeys

(***************************************************************************)
(* The reader and the extension.                                           *)
(***************************************************************************)
\* C30: a source that validation accepted with the extension .xlsx or .xls,
\* in any letter case, is parsed with the spreadsheet reader, and one
\* accepted with the extension .csv, in any letter case, with the CSV reader.
C30_ReaderAgreesWithExtension ==
    (ppc = "loaded" /\ validate_file_security(file) = NoExcP) =>
        /\ Lower(file_ext(file)) \in {".xlsx", ".xls"} => reader = "read_excel"
        /\ Lower(file_ext(file)) = ".csv" => reader = "read_csv"

\* the same for the extensions in lower case only
C30_LowerCaseExtensions ==
    (ppc = "loaded" /\ validate_file_security(file) = NoExcP) =>
        /\ file_ext(file) \in {".xlsx", ".xls"} => reader = "read_excel"
        /\ Lower(file_ext(file)) = ".csv" => reader = "read_csv"

\* an accepted .XLSX path went to the CSV reader
C30_UpperCaseWorkbookAsCsv ==
    /\ ppc = "loaded" /\ file.kind = "path" /\ file.ext = ".XLSX"
    /\ validate_file_security(file) = NoExcP
    /\ reader = "read_csv"

(***************************************************************************)
(* The audit log, and a store opened again.                                *)
(***************************************************************************)
InsertEvents ==
    {i \in DOMAIN security_log : security_log[i].action = "INSERT"}

\* C22: whenever the trades table holds a row, security_log holds at least
\* one event with action INSERT; in particular after a store_trades call
\* that inserted a trade.
C22_InsertEventLogged ==
    trades # <<>> => Cardinality(InsertEvents) >= 1

\* what the table holds instead: nothing, whatever was stored
C22_LogStaysEmpty == security_log = <<>>

\* C23: making a further SecureDatabase on the path of the store changes no
\* stored trade; what an object found when it was made is still there, in
\* place, and get_trades() without arguments returns every committed trade
\* exactly once.
C23_ReopenKeepsTrades ==
    /\ [][opened' # opened =>
             /\ trades' = trades
             /\ security_log' = security_log]_vars
    /\ [](\A k \in DOMAIN opened : opened[k] <= Len(trades))
    /\ [](Len(opened) > 1 =>
             /\ submitted \subseteq Hashes(GetTrades(<<>>, <<>>))
             /\ Len(GetTrades(<<>>, <<>>)) = Len(trades)
             /\ Cardinality(Hashes(GetTrades(<<>>, <<>>))) = Len(trades))

\* the second object was made on a store of two trades and returns both
C23_Witness ==
    /\ Len(opened) = 2 /\ opened[2] = 2
    /\ AllIdle
    /\ Len(GetTrades(<<>>, <<>>)) = 2
    /\ Hashes(GetTrades(<<>>, <<>>)) = submitted

(***************************************************************************)
(* Claims about reading the store.                                         *)
(***************************************************************************)
\* the arguments of get_trades: None or a value
Limits        == {<<>>} \cup {<<n>> : n \in 0..(MaxRows + 1)}
SourceFilters == {<<>>} \cup {<<s>> : s \in Sources}

\* the stored rows a source filter asks for
Matching(src) ==
    {i \in DOMAIN trades : src = <<>> \/ trades[i].data_source = src[1]}

\* C19: get_trades(limit, source) returns the stored trades by trade_time
\* descending; with a source only the trades stored under that tag; with a
\* limit n >= 0 exactly min(n, matching trades) rows, the first of that
\* ordering.
C19_GetTradesLimitAndSource ==
    \A limit \in Limits, src \in SourceFilters :
        LET rows == GetTrades(limit, src)
            all  == GetTrades(<<>>, src)
            most == Cardinality(Matching(src))
        IN  /\ \A i \in 1..(Len(rows) - 1) :
                  TimeRank(rows[i]) >= TimeRank(rows[i + 1])
            /\ \A i \in DOMAIN rows : src # <<>> => rows[i].data_source = src[1]
            /\ Hashes(all) = {trades[i].data_hash : i \in Matching(src)}
            /\ Len(all) = most
            /\ limit # <<>> =>
                  /\ Len(rows) = IF limit[1] < most THEN limit[1] ELSE most
                  /\ rows = SubSeq(all, 1, Len(rows))

RECURSIVE SumCounts(_)
SumCounts(entries) ==
    IF entries = <<>> THEN 0
    ELSE Head(entries).count + SumCounts(Tail(entries))

\* C20: in every reachable state get_trade_statistics reports total_trades
\* equal to the number of stored trades and to the sum of the per-source
\* counts; every stored trade is counted under exactly one source, the tag
\* of the call that first inserted its fingerprint (a row enters the store
\* with the tag of the committing call, its fingerprint not stored before,
\* and keeps it); winning_trades + losing_trades <= total_trades; win_rate
\* is 0 when the store is empty.
C20_StatisticsCountEveryTrade ==
    /\ [](LET s == get_trade_statistics IN
          /\ s.total_trades = Len(trades)
          /\ s.total_trades = SumCounts(s.sources)
          /\ \A i \in DOMAIN trades :
                Cardinality({j \in DOMAIN s.sources :
                    s.sources[j].source = trades[i].data_source}) = 1
          /\ \A j \in DOMAIN s.sources :
                s.sources[j].count =
                    Cardinality({i \in DOMAIN trades :
                        trades[i].data_source = s.sources[j].source})
          /\ s.winning_trades + s.losing_trades <= s.total_trades
          /\ trades = <<>> => s.win_rate = IntCell(0))
    /\ [][/\ Len(trades') >= Len(trades)
          /\ SubSeq(trades', 1, Len(trades)) = trades
          /\ \A i \in (Len(trades) + 1)..Len(trades') :
                /\ trades'[i].data_hash \notin Hashes(trades)
                /\ \E w \in Writers :
                      pc[w] = "commit" /\ trades'[i].data_source = source[w]]_vars

\* trades of two sources are stored, one of them a win, one a loss
C20_Witness ==
    /\ Len(get_trade_statistics.sources) = 2
    /\ get_trade_statistics.sources[1].count = 2
    /\ get_trade_statistics.sources[2].count = 1
    /\ get_trade_statistics.winning_trades >= 1
    /\ get_trade_statistics.losing_trades = 1

(***************************************************************************)
(* Claims about the metrics, on the tables of SpecMetrics.                 *)
(***************************************************************************)
Measured == ppc = "measured" /\ metrics.outcome = "returned"

\* the Realized P&L of the table the metrics were computed on, nulls left out
PnlValues ==
    LET cells == SelectSeq(Series(loaded.df, "Realized P&L"), NotNa) IN
    [i \in DOMAIN cells |-> cells[i].n]

\* C18: Max_Consecutive_Wins (Max_Consecutive_Losses) is the length of the
\* longest run of rows whose Win (Loss) flag is True, in row order; it is 0
\* when the flag column is absent or never True and it never exceeds
\* Winning_Trades (Losing_Trades).
C18_LongestRun ==
    (ppc = "measured" /\ metrics.outcome = "returned") =>
        \A flag \in {"Win", "Loss"} :
            LET d    == MetricTable(loaded.df, metrics.input)
                n    == Len(d.rows)
                on   == IF InColumns(d, flag)
                        THEN {i \in 1..n : Series(d, flag)[i].n = 1} ELSE {}
                runs == {len \in 0..n : \E a \in 1..(n + 1) :
                            (a + len - 1 <= n) /\ (a..(a + len - 1)) \subseteq on}
                best == metrics.m[IF flag = "Win" THEN "Max_Consecutive_Wins"
                                  ELSE "Max_Consecutive_Losses"]
                count == metrics.m[IF flag = "Win" THEN "Winning_Trades"
                                   ELSE "Losing_Trades"]
            IN  /\ best \in runs
                /\ \A len \in runs : len <= best
                /\ best <= count
                /\ (on = {}) => best = 0

\* a streak broken by a break-even row and by a null row, and a table cut
\* to its file columns
C18_Witness ==
    /\ Measured /\ metrics.input = "table"
    /\ Len(loaded.df.rows) = 3
    /\ Series(loaded.df, "Win")[1].n = 1
    /\ Series(loaded.df, "Win")[2].n = 0
    /\ Series(loaded.df, "Win")[3].n = 1
    /\ metrics.m["Max_Consecutive_Wins"] = 1
    /\ metrics.m["Winning_Trades"] = 2

\* the sum of the first k values
RECURSIVE PrefixSum(_, _)
PrefixSum(values, k) ==
    IF k = 0 THEN 0 ELSE PrefixSum(values, k - 1) + values[k]

\* the sum of the values the test picks
RECURSIVE SumOf(_, _)
SumOf(values, sign) ==
    IF values = <<>> THEN 0
    ELSE (IF values[1] * sign > 0 THEN values[1] ELSE 0)
         + SumOf(Tail(values), sign)

CountOf(values, sign) ==
    Cardinality({i \in DOMAIN values : values[i] * sign > 0})

\* the entries of the metrics dict by the kind of their value
CountFields == {"Total_Trades", "Winning_Trades", "Losing_Trades",
                "Break_Even_Trades", "Max_Consecutive_Wins",
                "Max_Consecutive_Losses"}
HundredthFields == {"Total_P&L", "Win_Rate", "Loss_Rate"}
FloatFields == {"Average_Win", "Average_Loss", "Risk_Reward_Ratio",
                "Profit_Factor", "Max_Drawdown", "Sharpe_Ratio",
                "Best_Single_Trade", "Worst_Single_Trade"}

\* a table with no trade, or one whose Realized P&L are all zero
ZeroTrades == Len(loaded.df.rows) = 0
AllZeroPnl ==
    /\ Len(loaded.df.rows) > 0
    /\ \A i \in DOMAIN loaded.df.rows :
          Series(loaded.df, "Realized P&L")[i] = FloatCell(0)

\* C15: calculate_comprehensive_metrics does not raise for a table with a
\* Realized P&L column that has zero trades or only zero P&L, and every
\* entry of the snapshot is then 0 or "Infinite" (the number of trades and
\* of break-even trades aside when there are trades).
C15_DegenerateGivesSentinels ==
    (ppc = "measured" /\ metrics.input \in {"table", "columns"}
        /\ (ZeroTrades \/ AllZeroPnl)) =>
        /\ metrics.outcome = "returned"
        /\ \A k \in CountFields \cup HundredthFields :
              (ZeroTrades \/ k \notin {"Total_Trades", "Break_Even_Trades"})
                  => metrics.m[k] = 0
        /\ \A k \in FloatFields : metrics.m[k] \in {Rounded(0), Infinite}

\* C16: Risk_Reward_Ratio is "Infinite" exactly when Average_Loss is 0 and
\* otherwise |Average_Win / Average_Loss|; Profit_Factor is "Infinite"
\* exactly when the negative P&L sum to 0 and otherwise the positive sum
\* over the absolute negative sum; neither is a numeric infinity.
C16_InfiniteSentinels ==
    Measured =>
        LET rr   == metrics.m["Risk_Reward_Ratio"]
            pf   == metrics.m["Profit_Factor"]
            nW   == CountOf(PnlValues, 1)
            nL   == CountOf(PnlValues, 0 - 1)
            sumW == SumOf(PnlValues, 1)
            sumL == SumOf(PnlValues, 0 - 1)
        IN  /\ (rr = Infinite) <=> (metrics.m["Average_Loss"] = Rounded(0))
            /\ (pf = Infinite) <=> (sumL = 0)
            /\ rr # InfCell /\ pf # InfCell
            /\ pf # Infinite => pf = Rounded(RoundRatio(sumW, 0 - sumL))
            /\ (rr # Infinite /\ nW > 0) =>
                  rr = Rounded(RoundRatio(sumW * nL, nW * (0 - sumL)))
            /\ (rr # Infinite /\ nW = 0) => rr = Rounded(0)

\* two wins and a loss, and a table without a loss
C16_Witness ==
    /\ Measured /\ metrics.input = "table"
    /\ PnlValues = <<300, 0 - 200, 100>>
    /\ metrics.m["Risk_Reward_Ratio"] = Rounded(100)
    /\ metrics.m["Profit_Factor"] = Rounded(200)

\* C17: for a table with at least one Realized P&L value, Max_Drawdown is
\* the least value, over the rows in their order, of the cumulative P&L
\* minus the highest cumulative P&L so far; it is at most 0, and 0 exactly
\* when the cumulative P&L never falls below an earlier value.
C17_MaxDrawdown ==
    (Measured /\ PnlValues # <<>>) =>
        LET n     == Len(PnlValues)
            Cum(k) == PrefixSum(PnlValues, k)
            deepest == CHOOSE x \in {Cum(k) - Cum(j) :
                                        <<j, k>> \in {p \in (1..n) \X (1..n) :
                                                         p[1] <= p[2]}} :
                          \A j \in 1..n : \A k \in j..n : x <= Cum(k) - Cum(j)
        IN  /\ metrics.m["Max_Drawdown"] = Rounded(100 * deepest)
            /\ metrics.m["Max_Drawdown"].n <= 0
            /\ (metrics.m["Max_Drawdown"].n = 0)
                  <=> (\A j \in 1..n : \A k \in j..n : Cum(k) >= Cum(j))

\* the deepest fall spans two rows and follows a gain
C17_Witness ==
    /\ Measured /\ metrics.input = "table"
    /\ PnlValues = <<300, 0 - 100, 0 - 200>>
    /\ metrics.m["Max_Drawdown"] = Rounded(0 - 30000)

\* C24: for every table without a "Realized P&L" column, whatever its other
\* columns, calculate_comprehensive_metrics raises DataValidationError and
\* returns no metrics; a table with the column is not refused for it.
C24_MissingPnlRaises ==
    ppc = "measured" =>
        LET d == MetricTable(loaded.df, metrics.input) IN
        IF StrCell("Realized P&L") \in Range(d.columns)
        THEN metrics.exc # ExcMissingMetrics
        ELSE /\ metrics.outcome = "raised"
             /\ metrics.exc = ExcMissingMetrics
             /\ metrics.m = <<>>

\* refused although the Win and Loss flags of three trades are there
C24_Witness ==
    /\ ppc = "measured" /\ metrics.input = "flags"
    /\ Len(loaded.df.rows) = 3
    /\ InColumns(MetricTable(loaded.df, "flags"), "Win")
    /\ ~InColumns(MetricTable(loaded.df, "flags"), "Realized P&L")
    /\ metrics.outcome = "raised" /\ metrics.exc = ExcMissingMetrics

MeanOf(values, sign) ==
    IF CountOf(values, sign) = 0 THEN Rounded(0)
    ELSE Rounded(RoundRatio(SumOf(values, sign), CountOf(values, sign)))

\* C28: for every table calculate_comprehensive_metrics accepts, with or
\* without the Win and Loss columns, Average_Win is the mean of the rows with
\* a positive Realized P&L and Average_Loss the mean of those with a negative
\* one, each 0 exactly when there is no such row.
C28_AverageWinLoss ==
    Measured =>
        /\ metrics.m["Average_Win"] = MeanOf(PnlValues, 1)
        /\ metrics.m["Average_Loss"] = MeanOf(PnlValues, 0 - 1)
        /\ (metrics.m["Average_Win"] = Rounded(0))
               <=> (CountOf(PnlValues, 1) = 0)
        /\ (metrics.m["Average_Loss"] = Rounded(0))
               <=> (CountOf(PnlValues, 0 - 1) = 0)

\* the same, only for tables that carry the Win and Loss columns
C28_WithFlagColumns ==
    (Measured /\ metrics.input = "table") =>
        /\ metrics.m["Average_Win"] = MeanOf(PnlValues, 1)
        /\ metrics.m["Average_Loss"] = MeanOf(PnlValues, 0 - 1)

====
